---------------------------- MODULE Spec2Model ----------------------------
(***************************************************************************)
(* A model of the OSPFv3 message codec of package ospf3 (message.go) and   *)
(* of the round-trip pipeline of fuzz.go that drives it:                   *)
(*     ParseMessage -> MarshalMessage -> ParseMessage -> MarshalMessage    *)
(* Three specifications share the codec:                                   *)
(*   Spec       the round-trip pipeline                                    *)
(*   FieldSpec  the field-level functions applied to single values         *)
(*   ConnSpec   Conn.ReadFrom (conn.go) on a socket datagrams arrive at    *)
(*                                                                         *)
(* Representation of Go values                                             *)
(*   []byte          a sequence of numbers 0..255; Go offset k is index k+1*)
(*   uint8, uint16   a number                                              *)
(*   uint32          a record [hi, lo] of two 16-bit halves (hi*2^16 + lo) *)
(*   ID ([4]byte)    a sequence of 4 bytes                                 *)
(*   time.Duration   a record [sec, nsec], meaning sec*10^9 + nsec         *)
(*                   nanoseconds with 0 <= nsec < 10^9                     *)
(*   a slice field   a record [isNil, elems]: Go tells a nil slice from an *)
(*                   empty one, and so does the structural equality        *)
(*                   (cmp.Diff) the tests and fuzz.go use                  *)
(*   error           the sentinel it wraps (errors.Is), "nil" for no error *)
(***************************************************************************)
EXTENDS Integers, Sequences, FiniteSets, TLC

VARIABLES
    origin,   \* "bytes": the run starts from input bytes; "msg": from a Message
    stage,    \* how many codec calls have returned (0..4)
    pc,       \* "run", "done" (pipeline over) or "panic" (fuzz panicked)
    b1,       \* the input bytes (origin "bytes")
    m1, e1,   \* result of ParseMessage(b1), or the input Message (origin "msg")
    b2, e2,   \* result of MarshalMessage(m1)
    m2, e3,   \* result of ParseMessage(b2)
    b3, e4,   \* result of MarshalMessage(m2)
    call,     \* the field-level function applied last ("none" before any)
    arg,      \* its input value
    out,      \* what it returned
    mtu,      \* c.ifi.MTU of the Conn
    sock,     \* datagrams the socket holds, in arrival order
    rpc,      \* where Conn.ReadFrom is: "idle", "read" (blocked), "returned"
    ret,      \* what Conn.ReadFrom returned
    hist,     \* what the reads of this Conn.ReadFrom call returned, in order
    gor,      \* the goroutines calling the codec: call, position, locals, result
    heap,     \* the memory their calls read and write: address -> value
    iface,    \* the *net.Interface handed to Listen
    kern,     \* the kernel's view of the raw socket: open, groups, calls made
    lpc,      \* where Listen or Conn.Close is
    conn,     \* the *Conn Listen returned
    lret      \* what Listen and Conn.Close returned

pvars == <<origin, stage, pc, b1, m1, e1, b2, e2, m2, e3, b3, e4>>
fvars == <<call, arg, out>>
cvars == <<mtu, sock, rpc, ret, hist>>
gvars == <<gor, heap>>
lvars == <<iface, kern, lpc, conn, lret>>
vars == <<pvars, fvars, cvars, gvars, lvars>>

---------------------------------------------------------------------------
(* Program constants (message.go:10-39).                                   *)

version == 3
headerLen == 16
lsaLen == 12
lsaHeaderLen == 20
helloLen == 20
ddLen == 12

hello == 1
databaseDescription == 2
linkStateRequest == 3
linkStateUpdate == 4
linkStateAcknowledgement == 5

(* Sentinel errors (message.go:24-27); ErrNil is Go's nil error.           *)
ErrNil == "nil"
errMarshal == "errMarshal"
errParse == "errParse"
(* The error of ParseMessage's default case (message.go:201) is built      *)
(* without %w: it wraps no sentinel.                                       *)
errNotImplementedWrapped == "errParse"
errNotImplemented == "errNotImplemented"

---------------------------------------------------------------------------
(* Bytes, slices and fixed-width integers.                                 *)

(* make([]byte, n): n zero bytes.                                          *)
Make(n) == [i \in 1..n |-> 0] \o <<>>

(* b[lo:hi]                                                                *)
Slice(b, lo, hi) == SubSeq(b, lo + 1, hi)

(* The buffer after data was stored at offset off (copy, PutUintNN on a    *)
(* sub-slice). Bytes that are not written keep their value.                *)
Put(buf, off, data) ==
    LET n == Len(data)
    IN  [i \in 1..Len(buf) |->
            IF i > off /\ i <= off + n THEN data[i - off] ELSE buf[i]] \o <<>>

(* The buffer after the loop `for i := range items { write recs[i] at      *)
(* b[nn+pad : nn+rec]; nn += rec }` with nn starting at start.             *)
PutEach(buf, start, rec, pad, recs) ==
    LET n == Len(recs)
    IN  [i \in 1..Len(buf) |->
            IF i > start /\ i <= start + rec * n
               /\ ((i - start - 1) % rec) >= pad
            THEN recs[((i - start - 1) \div rec) + 1][((i - start - 1) % rec) - pad + 1]
            ELSE buf[i]] \o <<>>

(* Conversions to a narrower unsigned type keep the low bits.              *)
ToUint8(x) == x % 256
ToUint16(x) == x % 65536

(* encoding/binary.BigEndian                                               *)
Uint16(b) == b[1] * 256 + b[2]
PutUint16(v) == <<(v \div 256) % 256, v % 256>>
Uint32(b) == [hi |-> Uint16(Slice(b, 0, 2)), lo |-> Uint16(Slice(b, 2, 4))]
PutUint32(v) == PutUint16(v.hi) \o PutUint16(v.lo)

(* Bitwise and / or of two non-negative numbers.                           *)
RECURSIVE BitAnd(_, _)
BitAnd(x, y) ==
    IF x = 0 \/ y = 0 THEN 0
    ELSE (x % 2) * (y % 2) + 2 * BitAnd(x \div 2, y \div 2)

RECURSIVE BitOr(_, _)
BitOr(x, y) ==
    IF x = 0 THEN y
    ELSE IF y = 0 THEN x
    ELSE (IF x % 2 = 1 \/ y % 2 = 1 THEN 1 ELSE 0) + 2 * BitOr(x \div 2, y \div 2)

And32(x, y) == [hi |-> BitAnd(x.hi, y.hi), lo |-> BitAnd(x.lo, y.lo)]
Or32(x, y) == [hi |-> BitOr(x.hi, y.hi), lo |-> BitOr(x.lo, y.lo)]
(* uint32(x) << 24 for a uint8 x                                           *)
Shl16(x) == [hi |-> x % 65536, lo |-> 0]
Shl24(x) == [hi |-> (x * 256) % 65536, lo |-> 0]
U32(n) == [hi |-> n \div 65536, lo |-> n % 65536]
Zero32 == U32(0)

(* The masks 0x00ffffff (message.go:70) and 0xff000000 (message.go:75).    *)
maskLow24 == [hi |-> 255, lo |-> 65535]
maskHigh8 == [hi |-> 65280, lo |-> 0]

(* A slice field.                                                          *)
NilSlice == [isNil |-> TRUE, elems |-> <<>>]
MakeSlice(s) == [isNil |-> FALSE, elems |-> s]
len(s) == Len(s.elems)

---------------------------------------------------------------------------
(* Options (message.go:49-75).                                             *)

(* options: the big-endian uint32 of b with the high 8 bits masked off.    *)
optionsUnmasked(b) == Uint32(b)
optionsMask25(b) == And32(Uint32(b), [hi |-> 511, lo |-> 65535])
options(b) == And32(Uint32(b), maskLow24)

(* Options.valid: only the low 24 bits may be set.                         *)
validTopNibble(o) == And32(o, [hi |-> 61440, lo |-> 0]) = Zero32
valid(o) == And32(o, maskHigh8) = Zero32

---------------------------------------------------------------------------
(* Durations (message.go:609-618).                                         *)

Second == 1000000000
Seconds(n) == [sec |-> n, nsec |-> 0]

(* time.Duration.Round(time.Second): to the nearest second, halfway values *)
(* away from zero.                                                         *)
RoundTowardZero(d) ==
    IF d.nsec = 0 \/ d.sec >= 0 THEN Seconds(d.sec) ELSE Seconds(d.sec + 1)
Round(d) ==
    IF d.nsec = 0 THEN d
    ELSE IF d.sec >= 0
         THEN (IF d.nsec + d.nsec < Second THEN Seconds(d.sec) ELSE Seconds(d.sec + 1))
         ELSE (IF (Second - d.nsec) + (Second - d.nsec) < Second
               THEN Seconds(d.sec + 1) ELSE Seconds(d.sec))

(* uint16(f) of the float64 count of whole seconds f. A value that uint16  *)
(* can hold converts exactly; for any other value the Go specification     *)
(* leaves the result to the implementation: conv names what the build      *)
(* does, "wrap" (keep the low 16 bits of the integer) or "saturate".       *)
FloatToUint16(n, conv) ==
    IF n >= 0 /\ n < 65536 THEN n
    ELSE IF conv = "wrap" THEN n % 65536
    ELSE IF n < 0 THEN 0 ELSE 65535

(* uint16Seconds: big-endian uint16 bytes as a number of seconds.          *)
uint16Seconds(b) == Seconds(Uint16(b))

(* putUint16Seconds: the 2 bytes stored for d.                             *)
putUint16Seconds(d, conv) == PutUint16(FloatToUint16(Round(d).sec, conv))

---------------------------------------------------------------------------
(* Header (message.go:94-153).                                             *)

ZeroID == <<0, 0, 0, 0>>
ZeroHeader == [RouterID |-> ZeroID, AreaID |-> ZeroID, Checksum |-> 0, InstanceID |-> 0]

(* Header.marshal on the 16-byte slice b. b[15] is reserved and is not     *)
(* written.                                                                *)
Header_marshalSetsReserved(b, h, ptyp, plen) ==
    LET s0 == Put(b, 0, <<version>>)
        s1 == Put(s0, 1, <<ToUint8(ptyp)>>)
        s2 == Put(s1, 2, PutUint16(plen))
        s3 == Put(s2, 4, h.RouterID)
        s4 == Put(s3, 8, h.AreaID)
        s5 == Put(s4, 12, PutUint16(h.Checksum))
    IN  Put(s5, 14, <<h.InstanceID, h.InstanceID>>)
Header_marshal(b, h, ptyp, plen) ==
    LET s0 == Put(b, 0, <<version>>)
        s1 == Put(s0, 1, <<ToUint8(ptyp)>>)
        s2 == Put(s1, 2, PutUint16(plen))
        s3 == Put(s2, 4, h.RouterID)
        s4 == Put(s3, 8, h.AreaID)
        s5 == Put(s4, 12, PutUint16(h.Checksum))
    IN  Put(s5, 14, <<h.InstanceID>>)

(* parseHeader: [h, ptyp, plen, err, text]; text is the start of the       *)
(* error's message.                                                        *)
HeaderError(text) ==
    [h |-> ZeroHeader, ptyp |-> 0, plen |-> 0, err |-> errParse, text |-> text]

parseHeaderAnyVersion(b) ==
    IF Len(b) < headerLen THEN HeaderError("not enough bytes for OSPFv3 header")
    ELSE LET h == [RouterID |-> Slice(b, 4, 8), AreaID |-> Slice(b, 8, 12),
                   Checksum |-> Uint16(Slice(b, 12, 14)), InstanceID |-> b[15]]
             plen == Uint16(Slice(b, 2, 4))
         IN  IF plen < headerLen
             THEN HeaderError("header packet length is too short for a valid packet")
             ELSE IF Len(b) < plen
             THEN HeaderError("header packet length exceeds the bytes available")
             ELSE [h |-> h, ptyp |-> b[2], plen |-> plen, err |-> ErrNil, text |-> ""]

parseHeaderLengthFirst(b) ==
    IF Len(b) < headerLen THEN HeaderError("not enough bytes for OSPFv3 header")
    ELSE LET h == [RouterID |-> Slice(b, 4, 8), AreaID |-> Slice(b, 8, 12),
                   Checksum |-> Uint16(Slice(b, 12, 14)), InstanceID |-> b[15]]
             plen == Uint16(Slice(b, 2, 4))
         IN  IF plen < headerLen
             THEN HeaderError("header packet length is too short for a valid packet")
             ELSE IF Len(b) < plen
             THEN HeaderError("header packet length exceeds the bytes available")
             ELSE IF b[1] # version THEN HeaderError("unrecognized OSPF version")
             ELSE [h |-> h, ptyp |-> b[2], plen |-> plen, err |-> ErrNil, text |-> ""]

parseHeader(b) ==
    IF Len(b) < headerLen THEN HeaderError("not enough bytes for OSPFv3 header")
    ELSE IF b[1] # version THEN HeaderError("unrecognized OSPF version")
    ELSE LET h == [RouterID |-> Slice(b, 4, 8), AreaID |-> Slice(b, 8, 12),
                   Checksum |-> Uint16(Slice(b, 12, 14)), InstanceID |-> b[15]]
             plen == Uint16(Slice(b, 2, 4))
         IN  IF plen < headerLen
             THEN HeaderError("header packet length is too short for a valid packet")
             ELSE IF Len(b) < plen
             THEN HeaderError("header packet length exceeds the bytes available")
             ELSE [h |-> h, ptyp |-> b[2], plen |-> plen, err |-> ErrNil, text |-> ""]

---------------------------------------------------------------------------
(* LSA and LSAHeader (message.go:554-607).                                 *)

(* LSA.marshal on the slice b (10 bytes from its callers).                 *)
LSA_marshalSwapped(b, l) ==
    LET s0 == Put(b, 0, PutUint16(l.Type))
        s1 == Put(s0, 2, l.AdvertisingRouter)
    IN  Put(s1, 6, l.LinkStateID)
LSA_marshal(b, l) ==
    LET s0 == Put(b, 0, PutUint16(l.Type))
        s1 == Put(s0, 2, l.LinkStateID)
    IN  Put(s1, 6, l.AdvertisingRouter)

parseLSA(b) ==
    [Type |-> Uint16(Slice(b, 0, 2)),
     LinkStateID |-> Slice(b, 2, 6),
     AdvertisingRouter |-> Slice(b, 6, 10)]

(* LSAHeader.marshal on the 20-byte slice b.                               *)
LSAHeader_marshalOverlap(b, h, conv) ==
    LET s0 == Put(b, 0, putUint16Seconds(h.Age, conv))
        s1 == Put(s0, 2, LSA_marshal(Slice(s0, 2, 12), h.LSA))
        s2 == Put(s1, 10, PutUint32(h.SequenceNumber))
        s3 == Put(s2, 16, PutUint16(h.Checksum))
    IN  Put(s3, 18, PutUint16(h.Length))
LSAHeader_marshal(b, h, conv) ==
    LET s0 == Put(b, 0, putUint16Seconds(h.Age, conv))
        s1 == Put(s0, 2, LSA_marshal(Slice(s0, 2, 12), h.LSA))
        s2 == Put(s1, 12, PutUint32(h.SequenceNumber))
        s3 == Put(s2, 16, PutUint16(h.Checksum))
    IN  Put(s3, 18, PutUint16(h.Length))

parseLSAHeader(b) ==
    [Age |-> uint16Seconds(Slice(b, 0, 2)),
     LSA |-> parseLSA(Slice(b, 2, 12)),
     SequenceNumber |-> Uint32(Slice(b, 12, 16)),
     Checksum |-> Uint16(Slice(b, 16, 18)),
     Length |-> Uint16(Slice(b, 18, 20))]

---------------------------------------------------------------------------
(* Messages (message.go:155-510). A Message is a record whose kind names   *)
(* the Go type behind the interface; NilMessage is the nil interface.      *)

NilMessage == [kind |-> "nil"]

NewHello(h) ==
    [kind |-> "Hello", Header |-> h, InterfaceID |-> Zero32, RouterPriority |-> 0,
     Options |-> Zero32, HelloInterval |-> Seconds(0), RouterDeadInterval |-> Seconds(0),
     DesignatedRouterID |-> ZeroID, BackupDesignatedRouterID |-> ZeroID,
     NeighborIDs |-> NilSlice]

NewDatabaseDescription(h) ==
    [kind |-> "DatabaseDescription", Header |-> h, Options |-> Zero32,
     InterfaceMTU |-> 0, Flags |-> 0, SequenceNumber |-> Zero32, LSAs |-> NilSlice]

NewLinkStateRequest(h) == [kind |-> "LinkStateRequest", Header |-> h, LSAs |-> NilSlice]

NewLinkStateAcknowledgement(h) ==
    [kind |-> "LinkStateAcknowledgement", Header |-> h, LSAs |-> NilSlice]

(* The records of a marshal loop: element j marshalled onto its own        *)
(* sub-slice of the buffer.                                                *)
IDRecords(ids) == [j \in 1..Len(ids) |-> ids[j]] \o <<>>

LSARecords(b, start, lsas) ==
    [j \in 1..Len(lsas) |->
        LSA_marshal(Slice(b, 2 + start + lsaLen * (j - 1), start + lsaLen * j), lsas[j])]
    \o <<>>

LSAHeaderRecords(b, start, hs, conv) ==
    [j \in 1..Len(hs) |->
        LSAHeader_marshal(Slice(b, start + lsaHeaderLen * (j - 1), start + lsaHeaderLen * j),
                          hs[j], conv)]
    \o <<>>

(*------------------------------- Hello ----------------------------------*)

Hello_lenNoHeader(h) == helloLen + (4 * len(h.NeighborIDs))
Hello_len(h) == headerLen + helloLen + (4 * len(h.NeighborIDs))

Hello_marshal(b, h, conv) ==
    IF ~valid(h.Options) THEN [b |-> b, err |-> errMarshal]
    ELSE LET n  == headerLen
             s0 == Put(b, 0, Header_marshal(Slice(b, 0, n), h.Header, hello,
                                            ToUint16(Hello_len(h))))
             s1 == Put(s0, n, PutUint32(h.InterfaceID))
             s2 == Put(s1, n + 4, PutUint32(Or32(Shl24(h.RouterPriority), h.Options)))
             s3 == Put(s2, n + 8, putUint16Seconds(h.HelloInterval, conv))
             s4 == Put(s3, n + 10, putUint16Seconds(h.RouterDeadInterval, conv))
             s5 == Put(s4, n + 12, h.DesignatedRouterID)
             s6 == Put(s5, n + 16, h.BackupDesignatedRouterID)
         IN  [b |-> PutEach(s6, n + 20, 4, 0, IDRecords(h.NeighborIDs.elems)),
              err |-> ErrNil]

Hello_unmarshal(h, b) ==
    IF Len(b) < helloLen THEN [m |-> h, err |-> errParse]
    ELSE IF Len(b) % 4 # 0 THEN [m |-> h, err |-> errParse]
    ELSE [m |-> [h EXCEPT
                  !.InterfaceID = Uint32(Slice(b, 0, 4)),
                  !.RouterPriority = b[5],
                  !.Options = options(Slice(b, 4, 8)),
                  !.HelloInterval = uint16Seconds(Slice(b, 8, 10)),
                  !.RouterDeadInterval = uint16Seconds(Slice(b, 10, 12)),
                  !.DesignatedRouterID = Slice(b, 12, 16),
                  !.BackupDesignatedRouterID = Slice(b, 16, 20),
                  !.NeighborIDs = MakeSlice(
                      [j \in 1..((Len(b) - helloLen) \div 4) |->
                          Slice(b, helloLen + 4 * (j - 1), helloLen + 4 * j)] \o <<>>)],
          err |-> ErrNil]

(*------------------------- DatabaseDescription --------------------------*)

DatabaseDescription_len(dd) == headerLen + ddLen + (lsaHeaderLen * len(dd.LSAs))

DatabaseDescription_marshal(b, dd, conv) ==
    IF ~valid(dd.Options) THEN [b |-> b, err |-> errMarshal]
    ELSE LET n  == headerLen
             s0 == Put(b, 0, Header_marshal(Slice(b, 0, n), dd.Header, databaseDescription,
                                            ToUint16(DatabaseDescription_len(dd))))
             s1 == Put(s0, n, PutUint32(dd.Options))
             s2 == Put(s1, n + 4, PutUint16(dd.InterfaceMTU))
             s3 == Put(s2, n + 7, <<ToUint8(dd.Flags)>>)
             s4 == Put(s3, n + 8, PutUint32(dd.SequenceNumber))
         IN  [b |-> PutEach(s4, n + 12, lsaHeaderLen, 0,
                            LSAHeaderRecords(s4, n + 12, dd.LSAs.elems, conv)),
              err |-> ErrNil]

DatabaseDescription_unmarshal(dd, b) ==
    IF Len(b) < ddLen THEN [m |-> dd, err |-> errParse]
    ELSE LET lsaOff == 12
             d1 == [dd EXCEPT
                      !.Options = options(Slice(b, 0, 4)),
                      !.InterfaceMTU = Uint16(Slice(b, 4, 6)),
                      !.Flags = b[8],
                      !.SequenceNumber = Uint32(Slice(b, 8, 12))]
             n == (Len(b) - lsaOff) \div lsaHeaderLen
         IN  IF (Len(b) - lsaOff) % lsaHeaderLen # 0 THEN [m |-> d1, err |-> errParse]
             ELSE [m |-> [d1 EXCEPT !.LSAs = MakeSlice(
                            [j \in 1..n |->
                                parseLSAHeader(Slice(b, lsaOff + ((j - 1) * lsaHeaderLen),
                                    lsaOff + lsaHeaderLen + ((j - 1) * lsaHeaderLen)))]
                            \o <<>>)],
                   err |-> ErrNil]

(*--------------------------- LinkStateRequest ---------------------------*)

LinkStateRequest_len(lsr) == headerLen + (lsaLen * len(lsr.LSAs))

LinkStateRequest_marshal(b, lsr, conv) ==
    LET n  == headerLen
        s0 == Put(b, 0, Header_marshal(Slice(b, 0, n), lsr.Header, linkStateRequest,
                                       ToUint16(LinkStateRequest_len(lsr))))
    IN  [b |-> PutEach(s0, n, lsaLen, 2, LSARecords(s0, n, lsr.LSAs.elems)),
         err |-> ErrNil]

LinkStateRequest_unmarshalNoCheck(lsr, b) ==
    [m |-> [lsr EXCEPT !.LSAs = MakeSlice(
              [j \in 1..(Len(b) \div lsaLen) |->
                  parseLSA(Slice(b, 2 + ((j - 1) * lsaLen), lsaLen + ((j - 1) * lsaLen)))]
              \o <<>>)],
     err |-> ErrNil]
LinkStateRequest_unmarshal(lsr, b) ==
    IF Len(b) % lsaLen # 0 THEN [m |-> lsr, err |-> errParse]
    ELSE LET n == Len(b) \div lsaLen
         IN  [m |-> [lsr EXCEPT !.LSAs = MakeSlice(
                       [j \in 1..n |->
                           parseLSA(Slice(b, 2 + ((j - 1) * lsaLen),
                                          lsaLen + ((j - 1) * lsaLen)))]
                       \o <<>>)],
              err |-> ErrNil]

(*----------------------- LinkStateAcknowledgement -----------------------*)

LinkStateAcknowledgement_len(lsa) == headerLen + (lsaHeaderLen * len(lsa.LSAs))

LinkStateAcknowledgement_marshal(b, lsa, conv) ==
    LET n  == headerLen
        s0 == Put(b, 0, Header_marshal(Slice(b, 0, n), lsa.Header, linkStateAcknowledgement,
                                       ToUint16(LinkStateAcknowledgement_len(lsa))))
    IN  [b |-> PutEach(s0, n, lsaHeaderLen, 0,
                       LSAHeaderRecords(s0, n, lsa.LSAs.elems, conv)),
         err |-> ErrNil]

LinkStateAcknowledgement_unmarshalNonEmpty(lsa, b) ==
    IF Len(b) = 0 \/ Len(b) % lsaHeaderLen # 0 THEN [m |-> lsa, err |-> errParse]
    ELSE LET n == Len(b) \div lsaHeaderLen
         IN  [m |-> [lsa EXCEPT !.LSAs = MakeSlice(
                       [j \in 1..n |->
                           parseLSAHeader(Slice(b, (j - 1) * lsaHeaderLen,
                                                lsaHeaderLen + ((j - 1) * lsaHeaderLen)))]
                       \o <<>>)],
              err |-> ErrNil]
LinkStateAcknowledgement_unmarshal(lsa, b) ==
    IF Len(b) % lsaHeaderLen # 0 THEN [m |-> lsa, err |-> errParse]
    ELSE LET n == Len(b) \div lsaHeaderLen
         IN  [m |-> [lsa EXCEPT !.LSAs = MakeSlice(
                       [j \in 1..n |->
                           parseLSAHeader(Slice(b, (j - 1) * lsaHeaderLen,
                                                lsaHeaderLen + ((j - 1) * lsaHeaderLen)))]
                       \o <<>>)],
              err |-> ErrNil]

(*----------------------- the Message interface --------------------------*)

Message_len(m) ==
    CASE m.kind = "Hello" -> Hello_len(m)
      [] m.kind = "DatabaseDescription" -> DatabaseDescription_len(m)
      [] m.kind = "LinkStateRequest" -> LinkStateRequest_len(m)
      [] m.kind = "LinkStateAcknowledgement" -> LinkStateAcknowledgement_len(m)

Message_marshal(b, m, conv) ==
    CASE m.kind = "Hello" -> Hello_marshal(b, m, conv)
      [] m.kind = "DatabaseDescription" -> DatabaseDescription_marshal(b, m, conv)
      [] m.kind = "LinkStateRequest" -> LinkStateRequest_marshal(b, m, conv)
      [] m.kind = "LinkStateAcknowledgement" -> LinkStateAcknowledgement_marshal(b, m, conv)

Message_unmarshal(m, b) ==
    CASE m.kind = "Hello" -> Hello_unmarshal(m, b)
      [] m.kind = "DatabaseDescription" -> DatabaseDescription_unmarshal(m, b)
      [] m.kind = "LinkStateRequest" -> LinkStateRequest_unmarshal(m, b)
      [] m.kind = "LinkStateAcknowledgement" -> LinkStateAcknowledgement_unmarshal(m, b)

(* MarshalMessage: [b, err]; b is nil (empty) when err is not nil.         *)
MarshalMessageNilNoop(m, conv) ==
    IF m = NilMessage THEN [b |-> <<>>, err |-> ErrNil]
    ELSE LET r == Message_marshal(Make(Message_len(m)), m, conv)
         IN  IF r.err # ErrNil THEN [b |-> <<>>, err |-> r.err]
             ELSE [b |-> r.b, err |-> ErrNil]
MarshalMessage(m, conv) ==
    IF m = NilMessage THEN [b |-> <<>>, err |-> errMarshal]
    ELSE LET r == Message_marshal(Make(Message_len(m)), m, conv)
         IN  IF r.err # ErrNil THEN [b |-> <<>>, err |-> r.err]
             ELSE [b |-> r.b, err |-> ErrNil]

(* ParseMessage: [m, err]; m is nil when err is not nil.                   *)
ParseMessageWholeBuffer(b) ==
    LET p == parseHeader(b)
    IN  IF p.err # ErrNil THEN [m |-> NilMessage, err |-> p.err]
        ELSE IF p.ptyp \notin {hello, databaseDescription, linkStateRequest,
                               linkStateAcknowledgement}
        THEN [m |-> NilMessage, err |-> errNotImplemented]
        ELSE LET m == CASE p.ptyp = hello -> NewHello(p.h)
                        [] p.ptyp = databaseDescription -> NewDatabaseDescription(p.h)
                        [] p.ptyp = linkStateRequest -> NewLinkStateRequest(p.h)
                        [] p.ptyp = linkStateAcknowledgement ->
                               NewLinkStateAcknowledgement(p.h)
                 r == Message_unmarshal(m, Slice(b, headerLen, Len(b)))
             IN  IF r.err # ErrNil THEN [m |-> NilMessage, err |-> r.err]
                 ELSE [m |-> r.m, err |-> ErrNil]
ParseMessage(b) ==
    LET p == parseHeader(b)
    IN  IF p.err # ErrNil THEN [m |-> NilMessage, err |-> p.err]
        ELSE IF p.ptyp \notin {hello, databaseDescription, linkStateRequest,
                               linkStateAcknowledgement}
        THEN [m |-> NilMessage, err |-> errNotImplemented]
        ELSE LET m == CASE p.ptyp = hello -> NewHello(p.h)
                        [] p.ptyp = databaseDescription -> NewDatabaseDescription(p.h)
                        [] p.ptyp = linkStateRequest -> NewLinkStateRequest(p.h)
                        [] p.ptyp = linkStateAcknowledgement ->
                               NewLinkStateAcknowledgement(p.h)
                 r == Message_unmarshal(m, Slice(b, headerLen, p.plen))
             IN  IF r.err # ErrNil THEN [m |-> NilMessage, err |-> r.err]
                 ELSE [m |-> r.m, err |-> ErrNil]

---------------------------------------------------------------------------
(* The index and slice expressions ParseMessage evaluates, in program      *)
(* order. An access [base, n, lo, hi] is the expression s[lo:hi] (s[lo]    *)
(* when hi = lo + 1) on a slice s of n bytes that starts at offset base of *)
(* the input buffer.                                                       *)

Acc(base, n, lo, hi) == [base |-> base, n |-> n, lo |-> lo, hi |-> hi]

(* parseHeader (message.go:122-153) on a buffer b.                         *)
parseHeaderAccesses(b) ==
    LET n == Len(b)
    IN  IF n < headerLen THEN <<>>
        ELSE <<Acc(0, n, 0, 1)>> \o
             (IF b[1] # version THEN <<>>
              ELSE <<Acc(0, n, 12, 14), Acc(0, n, 14, 15), Acc(0, n, 4, 8),
                     Acc(0, n, 8, 12), Acc(0, n, 2, 4)>> \o
                   (IF Uint16(Slice(b, 2, 4)) < headerLen \/ n < Uint16(Slice(b, 2, 4))
                    THEN <<>>
                    ELSE <<Acc(0, n, 1, 2)>>))

(* parseLSA (message.go:571-576) on a slice of n bytes at base.            *)
parseLSAAccesses(base, n) ==
    <<Acc(base, n, 0, 2), Acc(base, n, 2, 6), Acc(base, n, 6, 10)>>

(* parseLSAHeader (message.go:599-607) on a slice of n bytes at base.      *)
parseLSAHeaderAccesses(base, n) ==
    <<Acc(base, n, 0, 2), Acc(base, n, 2, 12)>> \o parseLSAAccesses(base + 2, 10) \o
    <<Acc(base, n, 12, 16), Acc(base, n, 16, 18), Acc(base, n, 18, 20)>>

(* for i := from; i < n; i += 4 { copy(id[:], b[i:i+4]) }                 *)
RECURSIVE NeighborLoopAccesses(_, _, _)
NeighborLoopAccesses(base, n, i) ==
    IF i < n THEN <<Acc(base, n, i, i + 4)>> \o NeighborLoopAccesses(base, n, i + 4)
    ELSE <<>>

(* for i := 0; i < cnt; i++ { parseLSAHeader(b[off+i*20 : off+20+i*20]) } *)
RECURSIVE LSAHeaderLoopAccesses(_, _, _, _, _)
LSAHeaderLoopAccesses(base, n, off, cnt, i) ==
    IF i < cnt
    THEN LET start == off + (i * lsaHeaderLen)
             end == off + lsaHeaderLen + (i * lsaHeaderLen)
         IN  <<Acc(base, n, start, end)>> \o
             parseLSAHeaderAccesses(base + start, end - start) \o
             LSAHeaderLoopAccesses(base, n, off, cnt, i + 1)
    ELSE <<>>

(* for i := 0; i < cnt; i++ { parseLSA(b[2+i*12 : 12+i*12]) }             *)
RECURSIVE LSALoopAccesses(_, _, _, _)
LSALoopAccesses(base, n, cnt, i) ==
    IF i < cnt
    THEN LET start == 2 + (i * lsaLen)
             end == lsaLen + (i * lsaLen)
         IN  <<Acc(base, n, start, end)>> \o parseLSAAccesses(base + start, end - start) \o
             LSALoopAccesses(base, n, cnt, i + 1)
    ELSE <<>>

(* Hello.unmarshal (message.go:264-294) on a body of n bytes at base.      *)
Hello_unmarshalAccessesUnaligned(base, n) ==
    IF n < helloLen THEN <<>>
    ELSE <<Acc(base, n, 0, 4), Acc(base, n, 4, 5), Acc(base, n, 4, 8), Acc(base, n, 8, 10),
           Acc(base, n, 10, 12), Acc(base, n, 12, 16), Acc(base, n, 16, 20),
           Acc(base, n, helloLen, n)>> \o
         NeighborLoopAccesses(base, n, helloLen)
Hello_unmarshalAccesses(base, n) ==
    IF n < helloLen THEN <<>>
    ELSE IF n % 4 # 0 THEN <<>>
    ELSE <<Acc(base, n, 0, 4), Acc(base, n, 4, 5), Acc(base, n, 4, 8), Acc(base, n, 8, 10),
           Acc(base, n, 10, 12), Acc(base, n, 12, 16), Acc(base, n, 16, 20),
           Acc(base, n, helloLen, n)>> \o
         NeighborLoopAccesses(base, n, helloLen)

(* DatabaseDescription.unmarshal (message.go:362-396).                     *)
DatabaseDescription_unmarshalAccesses(base, n) ==
    IF n < ddLen THEN <<>>
    ELSE LET lsaOff == 12
         IN  <<Acc(base, n, 0, 4), Acc(base, n, 4, 6), Acc(base, n, 7, 8),
               Acc(base, n, 8, 12), Acc(base, n, lsaOff, n)>> \o
             (IF (n - lsaOff) % lsaHeaderLen # 0 THEN <<>>
              ELSE <<Acc(base, n, lsaOff, n)>> \o
                   LSAHeaderLoopAccesses(base, n, lsaOff, (n - lsaOff) \div lsaHeaderLen, 0))

(* LinkStateRequest.unmarshal (message.go:432-454).                        *)
LinkStateRequest_unmarshalAccesses(base, n) ==
    IF n % lsaLen # 0 THEN <<>>
    ELSE LSALoopAccesses(base, n, n \div lsaLen, 0)

(* LinkStateAcknowledgement.unmarshal (message.go:489-510).                *)
LinkStateAcknowledgement_unmarshalAccesses(base, n) ==
    IF n % lsaHeaderLen # 0 THEN <<>>
    ELSE LSAHeaderLoopAccesses(base, n, 0, n \div lsaHeaderLen, 0)

(* ParseMessage (message.go:179-212): the accesses of parseHeader, the     *)
(* slice b[headerLen:plen] at line 207, and the accesses of unmarshal on   *)
(* that slice.                                                             *)
ParseMessageAccesses(b) ==
    LET p == parseHeader(b)
        known == p.err = ErrNil /\ p.ptyp \in {hello, databaseDescription, linkStateRequest,
                                               linkStateAcknowledgement}
        n == p.plen - headerLen
    IN  [header |-> parseHeaderAccesses(b),
         payload |-> IF known THEN <<Acc(0, Len(b), headerLen, p.plen)>> ELSE <<>>,
         body |-> IF ~known THEN <<>>
                  ELSE CASE p.ptyp = hello -> Hello_unmarshalAccesses(headerLen, n)
                         [] p.ptyp = databaseDescription ->
                                DatabaseDescription_unmarshalAccesses(headerLen, n)
                         [] p.ptyp = linkStateRequest ->
                                LinkStateRequest_unmarshalAccesses(headerLen, n)
                         [] p.ptyp = linkStateAcknowledgement ->
                                LinkStateAcknowledgement_unmarshalAccesses(headerLen, n)]

---------------------------------------------------------------------------
(* The stores of the marshal methods, in program order. A write            *)
(* [part, elem, base, n, lo, hi] stores into s[lo:hi] (s[lo] when          *)
(* hi = lo + 1) of a slice s of n bytes that starts at offset base of the  *)
(* buffer; part and elem name the field group or trailing element it       *)
(* belongs to. slices are the sub-slices handed to a callee.               *)

Wr(part, elem, base, n, lo, hi) ==
    [part |-> part, elem |-> elem, base |-> base, n |-> n, lo |-> lo, hi |-> hi]

(* The entries of a loop over cnt elements, element j contributing the per *)
(* entries of entries[j].                                                  *)
EachElem(cnt, per, entries) ==
    [k \in 1..(cnt * per) |-> entries[((k - 1) \div per) + 1][((k - 1) % per) + 1]] \o <<>>

(* Header.marshal (message.go:109-118) on a slice of n bytes at base.      *)
Header_marshalWrites(base, n) ==
    <<Wr("header", 0, base, n, 0, 1), Wr("header", 0, base, n, 1, 2),
      Wr("header", 0, base, n, 2, 4), Wr("header", 0, base, n, 4, 8),
      Wr("header", 0, base, n, 8, 12), Wr("header", 0, base, n, 12, 14),
      Wr("header", 0, base, n, 14, 15)>>

(* LSA.marshal (message.go:564-568) for element j.                         *)
LSA_marshalWrites(j, base, n) ==
    <<Wr("element", j, base, n, 0, 2), Wr("element", j, base, n, 2, 6),
      Wr("element", j, base, n, 6, 10)>>

(* LSAHeader.marshal (message.go:590-596) for element j.                   *)
LSAHeader_marshalWritesShifted(j, base, n) ==
    <<Wr("element", j, base, n, 0, 2)>> \o LSA_marshalWrites(j, base + 2, 10) \o
    <<Wr("element", j, base, n, 10, 14), Wr("element", j, base, n, 16, 18),
      Wr("element", j, base, n, 18, 20)>>
LSAHeader_marshalWrites(j, base, n) ==
    <<Wr("element", j, base, n, 0, 2)>> \o LSA_marshalWrites(j, base + 2, 10) \o
    <<Wr("element", j, base, n, 12, 16), Wr("element", j, base, n, 16, 18),
      Wr("element", j, base, n, 18, 20)>>

NoWrites == [slices |-> <<>>, writes |-> <<>>]

(* Hello.marshal (message.go:236-261) on a buffer of n bytes.              *)
Hello_marshalWrites(h, n) ==
    IF ~valid(h.Options) THEN NoWrites
    ELSE [slices |-> <<Acc(0, n, 0, headerLen)>>,
          writes |-> Header_marshalWrites(0, headerLen) \o
              <<Wr("fixed", 0, 0, n, headerLen, headerLen + 4),
                Wr("fixed", 0, 0, n, headerLen + 4, headerLen + 8),
                Wr("fixed", 0, 0, n, headerLen + 8, headerLen + 10),
                Wr("fixed", 0, 0, n, headerLen + 10, headerLen + 12),
                Wr("fixed", 0, 0, n, headerLen + 12, headerLen + 16),
                Wr("fixed", 0, 0, n, headerLen + 16, headerLen + 20)>> \o
              EachElem(len(h.NeighborIDs), 1,
                  [j \in 1..len(h.NeighborIDs) |->
                      LET nn == headerLen + 20 + (4 * (j - 1))
                      IN  <<Wr("element", j, 0, n, nn, nn + 4)>>])]

(* DatabaseDescription.marshal (message.go:336-359).                       *)
DatabaseDescription_marshalWrites(dd, n) ==
    IF ~valid(dd.Options) THEN NoWrites
    ELSE [slices |-> <<Acc(0, n, 0, headerLen)>> \o
              EachElem(len(dd.LSAs), 2,
                  [j \in 1..len(dd.LSAs) |->
                      LET nn == headerLen + 12 + (lsaHeaderLen * (j - 1))
                      IN  <<Acc(0, n, nn, nn + lsaHeaderLen),
                            Acc(nn, lsaHeaderLen, 2, 12)>>]),
          writes |-> Header_marshalWrites(0, headerLen) \o
              <<Wr("fixed", 0, 0, n, headerLen, headerLen + 4),
                Wr("fixed", 0, 0, n, headerLen + 4, headerLen + 6),
                Wr("fixed", 0, 0, n, headerLen + 7, headerLen + 8),
                Wr("fixed", 0, 0, n, headerLen + 8, headerLen + 12)>> \o
              EachElem(len(dd.LSAs), 7,
                  [j \in 1..len(dd.LSAs) |->
                      LSAHeader_marshalWrites(
                          j, headerLen + 12 + (lsaHeaderLen * (j - 1)), lsaHeaderLen)])]

(* LinkStateRequest.marshal (message.go:415-429).                          *)
LinkStateRequest_marshalWrites(lsr, n) ==
    [slices |-> <<Acc(0, n, 0, headerLen)>> \o
         EachElem(len(lsr.LSAs), 1,
             [j \in 1..len(lsr.LSAs) |->
                 LET nn == headerLen + (lsaLen * (j - 1))
                 IN  <<Acc(0, n, 2 + nn, nn + lsaLen)>>]),
     writes |-> Header_marshalWrites(0, headerLen) \o
         EachElem(len(lsr.LSAs), 3,
             [j \in 1..len(lsr.LSAs) |->
                 LSA_marshalWrites(j, 2 + headerLen + (lsaLen * (j - 1)), lsaLen - 2)])]

(* LinkStateAcknowledgement.marshal (message.go:473-486).                  *)
LinkStateAcknowledgement_marshalWrites(lsa, n) ==
    [slices |-> <<Acc(0, n, 0, headerLen)>> \o
         EachElem(len(lsa.LSAs), 2,
             [j \in 1..len(lsa.LSAs) |->
                 LET nn == headerLen + (lsaHeaderLen * (j - 1))
                 IN  <<Acc(0, n, nn, nn + lsaHeaderLen),
                       Acc(nn, lsaHeaderLen, 2, 12)>>]),
     writes |-> Header_marshalWrites(0, headerLen) \o
         EachElem(len(lsa.LSAs), 7,
             [j \in 1..len(lsa.LSAs) |->
                 LSAHeader_marshalWrites(
                     j, headerLen + (lsaHeaderLen * (j - 1)), lsaHeaderLen)])]

(* MarshalMessage (message.go:163-176): marshal on make([]byte, m.len()).  *)
MarshalMessageWrites(m) ==
    IF m = NilMessage THEN NoWrites
    ELSE LET n == Message_len(m)
         IN  CASE m.kind = "Hello" -> Hello_marshalWrites(m, n)
               [] m.kind = "DatabaseDescription" -> DatabaseDescription_marshalWrites(m, n)
               [] m.kind = "LinkStateRequest" -> LinkStateRequest_marshalWrites(m, n)
               [] m.kind = "LinkStateAcknowledgement" ->
                      LinkStateAcknowledgement_marshalWrites(m, n)

---------------------------------------------------------------------------
(* Inputs: the byte buffers handed to ParseMessage and the Messages handed *)
(* to MarshalMessage.                                                      *)

MaxBufLen == 56     \* longest input buffer
MaxElems == 3       \* most trailing elements of an ordinary input Message

RouterLSA == 8193
LinkLSA == 8

(* Index i (from 1) of a packet of type typ holds a reserved byte: header  *)
(* byte 15, DatabaseDescription body bytes 0 and 6, the first 2 bytes of   *)
(* each LinkStateRequest entry.                                            *)
ReservedIndex(typ, i) ==
    \/ i = 16
    \/ typ = databaseDescription /\ i \in {17, 23}
    \/ typ = linkStateRequest /\ i > 16 /\ ((i - 17) % 12) \in {0, 1}

FillByte(fill, i) == IF fill = 0 THEN ((i * 37) + 11) % 256 ELSE 255

(* A buffer of n bytes: version byte ver, type byte typ, declared length   *)
(* plen, reserved bytes rsv, all other bytes from the fill pattern.        *)
InputBytes(ver, typ, plen, n, fill, rsv) ==
    [i \in 1..n |->
        CASE i = 1 -> ver
          [] i = 2 -> typ
          [] i = 3 -> plen \div 256
          [] i = 4 -> plen % 256
          [] OTHER -> IF ReservedIndex(typ, i) THEN rsv ELSE FillByte(fill, i)] \o <<>>

BufLens == {0, 15} \cup (headerLen..MaxBufLen)
PlenVals == {0, 15, 65535} \cup (headerLen..(MaxBufLen + 1))
TypeVals == {hello, databaseDescription, linkStateRequest, linkStateUpdate,
             linkStateAcknowledgement, 0, 255}

HeaderVals ==
    { [RouterID |-> <<192, 0, 2, 1>>, AreaID |-> ZeroID, Checksum |-> 0, InstanceID |-> 1],
      [RouterID |-> <<255, 254, 253, 252>>, AreaID |-> <<1, 2, 3, 4>>,
       Checksum |-> 43981, InstanceID |-> 255] }

(* 0, V6Bit|EBit, 0x00ffffff, 0x01000000, 0xf0000001                       *)
OptionVals ==
    { U32(0), U32(3), [hi |-> 255, lo |-> 65535], [hi |-> 256, lo |-> 0],
      [hi |-> 61440, lo |-> 1] }

(* 0s, 5s, 1.5s, 1.499999999s, 65535s, 65536s, -1s                         *)
DurationVals ==
    { Seconds(0), Seconds(5), [sec |-> 1, nsec |-> 500000000],
      [sec |-> 1, nsec |-> 499999999], Seconds(65535), Seconds(65536), Seconds(0 - 1) }

ElemID(j) == <<192, 0, (j \div 256) % 256, j % 256>>
ElemLSA(j) ==
    [Type |-> IF j % 2 = 1 THEN RouterLSA ELSE LinkLSA,
     LinkStateID |-> <<0, 0, 0, j % 256>>, AdvertisingRouter |-> ElemID(j)]
ElemLSAHeader(j, age) ==
    [Age |-> age, LSA |-> ElemLSA(j), SequenceNumber |-> U32(255 + 256 * (j % 256)),
     Checksum |-> (j * 257) % 65536, Length |-> lsaHeaderLen]

IDs(n) == MakeSlice([j \in 1..n |-> ElemID(j)] \o <<>>)
LSAs(n) == MakeSlice([j \in 1..n |-> ElemLSA(j)] \o <<>>)
LSAHeaders(n, age) == MakeSlice([j \in 1..n |-> ElemLSAHeader(j, age)] \o <<>>)

(* The least number of records of size rec after fixed bytes whose wire    *)
(* length no longer fits the 16-bit packet length field.                   *)
OverflowCount(fixed, rec) == ((65535 - fixed) \div rec) + 1

HelloMessages ==
    { [kind |-> "Hello", Header |-> h, InterfaceID |-> i, RouterPriority |-> p,
       Options |-> o, HelloInterval |-> d, RouterDeadInterval |-> Seconds(10),
       DesignatedRouterID |-> <<192, 0, 2, 1>>,
       BackupDesignatedRouterID |-> <<192, 0, 2, 2>>, NeighborIDs |-> s] :
      h \in HeaderVals, i \in {U32(1), [hi |-> 65535, lo |-> 65534]}, p \in {1, 255},
      o \in OptionVals, d \in DurationVals,
      s \in {NilSlice} \cup {IDs(n) : n \in 0..MaxElems} }

DatabaseDescriptionMessages ==
    { [kind |-> "DatabaseDescription", Header |-> h, Options |-> o, InterfaceMTU |-> 1500,
       Flags |-> f, SequenceNumber |-> q, LSAs |-> s] :
      h \in HeaderVals, o \in OptionVals, f \in {0, 6, 255, 256, 65535},
      q \in {U32(1), [hi |-> 65535, lo |-> 65535]},
      s \in {NilSlice} \cup {LSAHeaders(n, Seconds(n)) : n \in 0..MaxElems} }

LinkStateRequestMessages ==
    { [kind |-> "LinkStateRequest", Header |-> h, LSAs |-> s] :
      h \in HeaderVals, s \in {NilSlice} \cup {LSAs(n) : n \in 0..MaxElems} }

LinkStateAcknowledgementMessages ==
    { [kind |-> "LinkStateAcknowledgement", Header |-> h, LSAs |-> s] :
      h \in HeaderVals,
      s \in {NilSlice} \cup {LSAHeaders(n, d) : n \in 0..MaxElems, d \in DurationVals} }

(* One Message of each type whose wire length is the first to exceed 65535.*)
LongMessages ==
    LET h == CHOOSE x \in HeaderVals : x.InstanceID = 1
    IN  { [NewHello(h) EXCEPT
              !.NeighborIDs = IDs(OverflowCount(headerLen + helloLen, 4))],
          [NewDatabaseDescription(h) EXCEPT
              !.LSAs = LSAHeaders(OverflowCount(headerLen + ddLen, lsaHeaderLen), Seconds(1))],
          [NewLinkStateRequest(h) EXCEPT
              !.LSAs = LSAs(OverflowCount(headerLen, lsaLen))],
          [NewLinkStateAcknowledgement(h) EXCEPT
              !.LSAs = LSAHeaders(OverflowCount(headerLen, lsaHeaderLen), Seconds(1))] }

InputMessages ==
    {NilMessage} \cup HelloMessages \cup DatabaseDescriptionMessages
        \cup LinkStateRequestMessages \cup LinkStateAcknowledgementMessages
        \cup LongMessages

(* What the build does with a float64 that uint16 cannot hold.             *)
Conversions == {"wrap", "saturate"}

---------------------------------------------------------------------------
(* The pipeline.                                                           *)

(* No field-level function is under way; no Conn is open.                  *)
FieldIdle == call = "none" /\ arg = <<>> /\ out = <<>>
ConnIdle ==
    /\ mtu = 0 /\ sock = <<>> /\ rpc = "idle"
    /\ ret = <<>> /\ hist = <<>>
GoIdle == gor = <<>> /\ heap = <<>>
ListenIdle ==
    /\ iface = <<>> /\ kern = <<>> /\ lpc = <<>>
    /\ conn = <<>> /\ lret = <<>>

InitBytes ==
    /\ origin = "bytes"
    /\ stage = 0
    /\ \E ver \in {2, version}, typ \in TypeVals, plen \in PlenVals, n \in BufLens,
          fill \in {0, 1}, rsv \in {0, 255} :
          b1 = InputBytes(ver, typ, plen, n, fill, rsv)
    /\ m1 = NilMessage
    /\ e1 = ErrNil

InitMessage ==
    /\ origin = "msg"
    /\ stage = 1
    /\ b1 = <<>>
    /\ m1 \in InputMessages
    /\ e1 = ErrNil

Init ==
    /\ InitBytes \/ InitMessage
    /\ pc = "run"
    /\ b2 = <<>> /\ e2 = ErrNil
    /\ m2 = NilMessage /\ e3 = ErrNil
    /\ b3 = <<>> /\ e4 = ErrNil
    /\ FieldIdle /\ ConnIdle /\ GoIdle /\ ListenIdle

(* fuzz.go:64-67: m1, err := ParseMessage(b1); an error ends the run.      *)
Parse1 ==
    /\ pc = "run" /\ stage = 0
    /\ LET r == ParseMessage(b1)
       IN  /\ m1' = r.m
           /\ e1' = r.err
           /\ pc' = IF r.err = ErrNil THEN "run" ELSE "done"
    /\ stage' = 1
    /\ UNCHANGED <<origin, b1, b2, e2, m2, e3, b3, e4>>
    /\ UNCHANGED <<fvars, cvars, gvars, lvars>>

(* fuzz.go:69-72: b2, err := MarshalMessage(m1); fuzz panics on an error.  *)
Marshal1 ==
    /\ pc = "run" /\ stage = 1
    /\ \E conv \in Conversions :
          LET r == MarshalMessage(m1, conv)
          IN  /\ b2' = r.b
              /\ e2' = r.err
              /\ pc' = IF r.err = ErrNil THEN "run"
                       ELSE IF origin = "bytes" THEN "panic" ELSE "done"
    /\ stage' = 2
    /\ UNCHANGED <<origin, b1, m1, e1, m2, e3, b3, e4>>
    /\ UNCHANGED <<fvars, cvars, gvars, lvars>>

(* fuzz.go:74-81: m2, err := ParseMessage(b2); fuzz panics on an error and *)
(* when m1 and m2 differ.                                                  *)
Parse2 ==
    /\ pc = "run" /\ stage = 2
    /\ LET r == ParseMessage(b2)
       IN  /\ m2' = r.m
           /\ e3' = r.err
           /\ pc' = IF r.err # ErrNil THEN (IF origin = "bytes" THEN "panic" ELSE "done")
                    ELSE IF origin = "bytes" /\ r.m # m1 THEN "panic"
                    ELSE "run"
    /\ stage' = 3
    /\ UNCHANGED <<origin, b1, m1, e1, b2, e2, b3, e4>>
    /\ UNCHANGED <<fvars, cvars, gvars, lvars>>

(* fuzz.go:85-94: b3, err := MarshalMessage(m2); fuzz panics on an error   *)
(* and when b2 and b3 differ.                                              *)
Marshal2 ==
    /\ pc = "run" /\ stage = 3
    /\ \E conv \in Conversions :
          LET r == MarshalMessage(m2, conv)
          IN  /\ b3' = r.b
              /\ e4' = r.err
              /\ pc' = IF origin = "bytes" /\ (r.err # ErrNil \/ r.b # b2)
                       THEN "panic" ELSE "done"
    /\ stage' = 4
    /\ UNCHANGED <<origin, b1, m1, e1, b2, e2, m2, e3>>
    /\ UNCHANGED <<fvars, cvars, gvars, lvars>>

Next == Parse1 \/ Marshal1 \/ Parse2 \/ Marshal2

Spec == Init /\ [][Next]_vars

---------------------------------------------------------------------------
(* The field-level functions of message.go applied to single values:       *)
(* LSType.LSAHandling, LSType.FloodingScope, putUint16Seconds and          *)
(* uint16Seconds, LSAHeader.marshal and parseLSAHeader, and the marshal    *)
(* and parse of one LinkStateRequest entry.                                *)

NetworkLSA == 8194
InterAreaPrefixLSA == 8195
InterAreaRouterLSA == 8196
ASExternalLSA == 16389
deprecatedLSA == 8198
NSSALSA == 8199
IntraAreaPrefixLSA == 8201

LinkLocalScoping == 0
AreaScoping == 1
ASScoping == 2
reservedScoping == 3

(* (t & 0xf000) != 0                                                       *)
LSAHandling(t) == BitAnd(t, 61440) # 0

(* (t & 0x6000) >> 13                                                      *)
FloodingScopeOneBit(t) == BitAnd(t, 8192) \div 8192
FloodingScope(t) == BitAnd(t, 24576) \div 8192

(* fmt.Sprintf("%#x", n) for n > 0: "0x" and the lower-case hexadecimal    *)
(* digits of n without leading zeros.                                      *)
HexDigit == <<"0", "1", "2", "3", "4", "5", "6", "7", "8", "9",
              "a", "b", "c", "d", "e", "f">>

RECURSIVE HexDigits(_)
HexDigits(n) ==
    IF n < 16 THEN HexDigit[n + 1]
    ELSE HexDigits(n \div 16) \o HexDigit[(n % 16) + 1]

Sprintf_x(n) == "0x" \o HexDigits(n)

(* The loop of flagsString from index i (from 1) on: [s, left].            *)
RECURSIVE flagsLoop(_, _, _, _, _)
flagsLoop(f, names, i, s, left) ==
    IF i > Len(names) THEN [s |-> s, left |-> left]
    ELSE IF (f \div (2 ^ (i - 1))) % 2 = 1
    THEN flagsLoop(f, names, i + 1,
                   (IF s # "" THEN s \o "|" ELSE s) \o names[i],
                   left - (2 ^ (i - 1)))
    ELSE flagsLoop(f, names, i + 1, s, left)

flagsStringNoZero(f, names) ==
    LET r == flagsLoop(f, names, 1, "", f)
    IN  IF r.left > 0
        THEN (IF r.s # "" THEN r.s \o "|" ELSE r.s) \o Sprintf_x(r.left)
        ELSE r.s

flagsString(f, names) ==
    LET r == flagsLoop(f, names, 1, "", f)
        s == IF r.s = "" /\ r.left = 0 THEN "0" ELSE r.s
    IN  IF r.left > 0
        THEN (IF s # "" THEN s \o "|" ELSE s) \o Sprintf_x(r.left)
        ELSE s

(* The names Options.String and DDFlags.String pass to flagsString.        *)
OptionNames ==
    <<"V6-bit", "E-bit", "x-bit", "N-bit", "R-bit", "DC-bit", "*-bit", "*-bit",
      "AF-bit", "L-bit", "AT-bit">>
DDFlagNames == <<"MS-bit", "M-bit", "I-bit">>

(* The names of the callers and of Test_flagsString; flag values with      *)
(* named bits, unnamed bits, both and none.                                *)
FlagNameLists ==
    { OptionNames, DDFlagNames, <<>>, <<"A", "B", "C">>, <<"foo", "bar", "baz", "qux">> }
FlagVals ==
    { 0, 1, 2, 3, 5, 7, 8, 19, 192, 256, 1034, 2047, 2048, 65535, 16777215, 1073741824 }

(* Every LSType value.                                                     *)
LSTypeVals == 0..65535

(* 0s, 1s, 5s, 65535s; 0.5s, 0.499999999s, 1.5s, 1.499999999s, 2.75s,      *)
(* 65534.5s, 65534.999999999s; and outside what the wire field holds:      *)
(* 65535.5s, 65536s, -1s.                                                  *)
DurationInputs ==
    { Seconds(0), Seconds(1), Seconds(5), Seconds(65535),
      [sec |-> 0, nsec |-> 500000000], [sec |-> 0, nsec |-> 499999999],
      [sec |-> 1, nsec |-> 500000000], [sec |-> 1, nsec |-> 499999999],
      [sec |-> 2, nsec |-> 750000000],
      [sec |-> 65534, nsec |-> 500000000], [sec |-> 65534, nsec |-> 999999999],
      [sec |-> 65535, nsec |-> 500000000], Seconds(65536), Seconds(0 - 1) }

LSAInputs ==
    { [Type |-> t, LinkStateID |-> i, AdvertisingRouter |-> r] :
      t \in {RouterLSA, LinkLSA, ASExternalLSA, 772, 65535},
      i \in {<<5, 6, 7, 8>>, <<0, 0, 0, 0>>},
      r \in {<<9, 10, 11, 12>>, <<255, 255, 255, 255>>} }

LSAHeaderInputs ==
    { [Age |-> a, LSA |-> l, SequenceNumber |-> q, Checksum |-> c, Length |-> n] :
      a \in {Seconds(0), Seconds(258), Seconds(65535)}, l \in LSAInputs,
      q \in {[hi |-> 3342, lo |-> 3856], [hi |-> 32768, lo |-> 1]},
      c \in {4370, 65535}, n \in {lsaHeaderLen, 4884} }

PipelineIdle ==
    /\ origin = "none" /\ stage = 0 /\ pc = "done"
    /\ b1 = <<>> /\ m1 = NilMessage /\ e1 = ErrNil
    /\ b2 = <<>> /\ e2 = ErrNil
    /\ m2 = NilMessage /\ e3 = ErrNil
    /\ b3 = <<>> /\ e4 = ErrNil

FieldInit ==
    /\ PipelineIdle /\ ConnIdle /\ GoIdle /\ ListenIdle
    /\ call = "none"
    /\ out = <<>>
    /\ \/ \E t \in LSTypeVals : arg = [kind |-> "LSType", t |-> t]
       \/ \E f \in FlagVals, names \in FlagNameLists :
             arg = [kind |-> "Flags", f |-> f, names |-> names]
       \/ \E d \in DurationInputs : arg = [kind |-> "Duration", d |-> d]
       \/ \E l \in LSAInputs : arg = [kind |-> "LSA", l |-> l]
       \/ \E h \in LSAHeaderInputs : arg = [kind |-> "LSAHeader", h |-> h]

(* message.go:532-534: t.LSAHandling().                                    *)
CallLSAHandling ==
    /\ call = "none" /\ arg.kind = "LSType"
    /\ call' = "LSAHandling"
    /\ out' = LSAHandling(arg.t)
    /\ UNCHANGED <<arg, pvars, cvars, gvars, lvars>>

(* message.go:538-540: t.FloodingScope().                                  *)
CallFloodingScope ==
    /\ call = "none" /\ arg.kind = "LSType"
    /\ call' = "FloodingScope"
    /\ out' = FloodingScope(arg.t)
    /\ UNCHANGED <<arg, pvars, cvars, gvars, lvars>>

(* message.go:616-618: putUint16Seconds(b, d) on a 2-byte slice.           *)
CallPutUint16Seconds ==
    /\ call = "none" /\ arg.kind = "Duration"
    /\ call' = "putUint16Seconds"
    /\ \E conv \in Conversions :
          out' = [b |-> Put(Make(2), 0, putUint16Seconds(arg.d, conv))]
    /\ UNCHANGED <<arg, pvars, cvars, gvars, lvars>>

(* message.go:610-612: uint16Seconds of the 2 bytes just written.          *)
CallUint16Seconds ==
    /\ call = "putUint16Seconds"
    /\ call' = "uint16Seconds"
    /\ out' = [b |-> out.b, d |-> uint16Seconds(out.b)]
    /\ UNCHANGED <<arg, pvars, cvars, gvars, lvars>>

(* message.go:590-596: h.marshal(b) on a 20-byte slice; lsa is b[2:12],    *)
(* the slice h.LSA.marshal was handed.                                     *)
CallLSAHeaderMarshal ==
    /\ call = "none" /\ arg.kind = "LSAHeader"
    /\ call' = "LSAHeader.marshal"
    /\ \E conv \in Conversions :
          LET b == LSAHeader_marshal(Make(lsaHeaderLen), arg.h, conv)
          IN  out' = [b |-> b, lsa |-> Slice(b, 2, 12)]
    /\ UNCHANGED <<arg, pvars, cvars, gvars, lvars>>

(* message.go:599-607: parseLSAHeader of the 20 bytes just written.        *)
CallParseLSAHeader ==
    /\ call = "LSAHeader.marshal"
    /\ call' = "parseLSAHeader"
    /\ out' = [b |-> out.b, lsa |-> out.lsa, h |-> parseLSAHeader(out.b)]
    /\ UNCHANGED <<arg, pvars, cvars, gvars, lvars>>

(* message.go:421-426: one turn of the loop of LinkStateRequest.marshal,   *)
(* on the entry's lsaLen bytes: l.marshal(b[2:lsaLen]).                    *)
CallLSAMarshal ==
    /\ call = "none" /\ arg.kind = "LSA"
    /\ call' = "LSA.marshal"
    /\ LET b == Make(lsaLen)
       IN  out' = [b |-> Put(b, 2, LSA_marshal(Slice(b, 2, lsaLen), arg.l))]
    /\ UNCHANGED <<arg, pvars, cvars, gvars, lvars>>

(* message.go:442-451: one turn of the loop of LinkStateRequest.unmarshal: *)
(* parseLSA(b[2:lsaLen]).                                                  *)
CallParseLSA ==
    /\ call = "LSA.marshal"
    /\ call' = "parseLSA"
    /\ out' = [b |-> out.b, l |-> parseLSA(Slice(out.b, 2, lsaLen))]
    /\ UNCHANGED <<arg, pvars, cvars, gvars, lvars>>

(* message.go:622-649: flagsString(f, names).                              *)
CallFlagsString ==
    /\ call = "none" /\ arg.kind = "Flags"
    /\ call' = "flagsString"
    /\ out' = flagsString(arg.f, arg.names)
    /\ UNCHANGED <<arg, pvars, cvars, gvars, lvars>>

FieldNext ==
    \/ CallLSAHandling \/ CallFloodingScope
    \/ CallFlagsString
    \/ CallPutUint16Seconds \/ CallUint16Seconds
    \/ CallLSAHeaderMarshal \/ CallParseLSAHeader
    \/ CallLSAMarshal \/ CallParseLSA

FieldSpec == FieldInit /\ [][FieldNext]_vars

---------------------------------------------------------------------------
(* Conn.ReadFrom (conn.go:79-98) on a socket that datagrams arrive at.     *)
(* ReadFrom allocates one buffer of c.ifi.MTU bytes, then loops: the       *)
(* underlying read blocks until a datagram or an error; the read copies at *)
(* most MTU bytes of the datagram into the buffer.                         *)

MaxDatagrams == 3   \* most datagrams that arrive in one behaviour

Mtus == {24, 1500}

Sources == {"fe80::1", "fe80::2"}

(* Errors of the underlying read.                                          *)
ReadErrors == {"i/o timeout", "use of closed network connection"}

(* Payloads: a Hello with one neighbor, a LinkStateRequest without entries,*)
(* a Hello followed by 4 more bytes, 15 bytes, a version 2 packet, a Link  *)
(* State Update, a LinkStateRequest with a 5-byte body.                    *)
Payloads ==
    LET h == CHOOSE x \in HeaderVals : x.InstanceID = 1
    IN  { MarshalMessage([NewHello(h) EXCEPT !.NeighborIDs = IDs(1)], "wrap").b,
          MarshalMessage(NewLinkStateRequest(h), "wrap").b,
          InputBytes(version, hello, 36, 40, 0, 0),
          InputBytes(version, hello, 15, 15, 0, 0),
          InputBytes(2, hello, 36, 36, 0, 0),
          InputBytes(version, linkStateUpdate, 20, 20, 0, 0),
          InputBytes(version, linkStateRequest, 21, 21, 0, 0) }

Datagrams ==
    { [data |-> p, cm |-> [HopLimit |-> 1, Dst |-> "ff02::5", Src |-> a], src |-> a] :
      p \in Payloads, a \in Sources }

NoReturn == <<>>

ConnInit ==
    /\ PipelineIdle /\ FieldIdle /\ GoIdle /\ ListenIdle
    /\ mtu \in Mtus
    /\ sock = <<>>
    /\ rpc = "idle"
    /\ ret = NoReturn
    /\ hist = <<>>

(* A datagram arrives at the socket.                                       *)
Deliver ==
    /\ Len(sock) + Len(hist) < MaxDatagrams
    /\ \E d \in Datagrams : sock' = Append(sock, d)
    /\ UNCHANGED <<mtu, rpc, ret, hist, pvars, fvars, gvars, lvars>>

(* conn.go:82-83: ReadFrom is called; b := make([]byte, c.ifi.MTU).        *)
ReadFromCall ==
    /\ rpc = "idle"
    /\ rpc' = "read"
    /\ UNCHANGED <<mtu, sock, ret, hist, pvars, fvars, gvars, lvars>>

(* What the underlying read leaves of datagram d: b[:n], cm, src.          *)
Received(d) ==
    LET n == IF Len(d.data) < mtu THEN Len(d.data) ELSE mtu
    IN  [b |-> SubSeq(d.data, 1, n), cm |-> d.cm, src |-> d.src]

(* conn.go:85-87: the underlying read returns an error.                    *)
ReadFromReadError ==
    /\ rpc = "read"
    /\ \E e \in ReadErrors :
          ret' = [m |-> NilMessage, cm |-> "nil", src |-> "nil", err |-> e]
    /\ rpc' = "returned"
    /\ UNCHANGED <<mtu, sock, hist, pvars, fvars, gvars, lvars>>

(* conn.go:85-97 with a parse error handed to the caller.                  *)
ReadFromDatagramNoDrop ==
    /\ rpc = "read" /\ sock # <<>>
    /\ LET rcv == Received(Head(sock))
           r == ParseMessage(rcv.b)
       IN  /\ hist' = Append(hist, rcv)
           /\ sock' = Tail(sock)
           /\ rpc' = "returned"
           /\ ret' = IF r.err # ErrNil
                     THEN [m |-> NilMessage, cm |-> "nil", src |-> "nil", err |-> r.err]
                     ELSE [m |-> r.m, cm |-> rcv.cm, src |-> rcv.src, err |-> ErrNil]
    /\ UNCHANGED <<mtu, pvars, fvars, gvars, lvars>>

(* conn.go:85-97: the underlying read returns a datagram; ParseMessage of  *)
(* b[:n] either fails (continue) or ReadFrom returns.                      *)
ReadFromDatagram ==
    /\ rpc = "read" /\ sock # <<>>
    /\ LET rcv == Received(Head(sock))
           r == ParseMessage(rcv.b)
       IN  /\ hist' = Append(hist, rcv)
           /\ sock' = Tail(sock)
           /\ IF r.err # ErrNil
              THEN rpc' = "read" /\ ret' = ret
              ELSE /\ rpc' = "returned"
                   /\ ret' = [m |-> r.m, cm |-> rcv.cm, src |-> rcv.src, err |-> ErrNil]
    /\ UNCHANGED <<mtu, pvars, fvars, gvars, lvars>>

ConnNext == Deliver \/ ReadFromCall \/ ReadFromReadError \/ ReadFromDatagram

ConnSpec == ConnInit /\ [][ConnNext]_vars

---------------------------------------------------------------------------
(* Concurrent calls of ParseMessage and MarshalMessage (message.go:        *)
(* 163-212), one per goroutine, each on a buffer or Message of its own.    *)
(* All memory a call touches is in heap: the caller's input at <<"in", g>>,*)
(* what the call allocates, and the package-level variables errMarshal and *)
(* errParse, at the addresses <<"errMarshal", 0>> and <<"errParse", 0>>.   *)
(* A step of a call is atomic; the steps of different goroutines           *)
(* interleave freely.                                                      *)

Goroutines == {1, 2}

NilAddr == <<"nil", 0>>

(* A valid Hello without neighbors, 15 bytes, a LinkStateRequest with one  *)
(* entry and set reserved bytes, a DatabaseDescription with a 13-byte      *)
(* body, a Link State Update.                                              *)
GoBytes ==
    { InputBytes(version, hello, 36, 36, 0, 0),
      InputBytes(version, hello, 15, 15, 0, 0),
      InputBytes(version, linkStateRequest, 28, 30, 1, 255),
      InputBytes(version, databaseDescription, 29, 29, 0, 0),
      InputBytes(version, linkStateUpdate, 20, 20, 0, 0) }

GoMessages ==
    LET h == CHOOSE x \in HeaderVals : x.InstanceID = 1
    IN  { NilMessage,
          [NewHello(h) EXCEPT !.NeighborIDs = IDs(1), !.Options = U32(3),
                              !.HelloInterval = Seconds(5)],
          [NewHello(h) EXCEPT !.Options = [hi |-> 256, lo |-> 0]],
          [NewDatabaseDescription(h) EXCEPT !.Flags = 6],
          [NewLinkStateAcknowledgement(h) EXCEPT !.LSAs = LSAHeaders(1, Seconds(5))] }

GoCalls ==
    { [op |-> "ParseMessage", in0 |-> b] : b \in GoBytes }
        \cup { [op |-> "MarshalMessage", in0 |-> m] : m \in GoMessages }

(* The address of what goroutine g allocates: a byte buffer ("buf") or a   *)
(* Message ("msg"). Every allocation is fresh memory.                      *)
AllocShared(g, what) == IF what = "msg" THEN <<what, 0>> ELSE <<what, g>>
Alloc(g, what) == <<what, g>>

Store(h, addr, val) == (addr :> val) @@ h

GoInit ==
    /\ PipelineIdle /\ FieldIdle /\ ConnIdle /\ ListenIdle
    /\ \E c \in [Goroutines -> GoCalls] :
          /\ gor = [g \in Goroutines |->
                       [op |-> c[g].op, in0 |-> c[g].in0, pc |-> "start",
                        loc |-> <<>>, res |-> <<>>]]
          /\ heap = [a \in {<<"in", g>> : g \in Goroutines} |-> c[a[2]].in0]
                        @@ (<<"errMarshal", 0>> :> errMarshal) @@ (<<"errParse", 0>> :> errParse)

(* message.go:164-170: the nil test, then b := make([]byte, m.len()).      *)
MarshalStart(g) ==
    /\ gor[g].op = "MarshalMessage" /\ gor[g].pc = "start"
    /\ LET m == heap[<<"in", g>>]
       IN  IF m = NilMessage
           THEN /\ gor' = [gor EXCEPT ![g].pc = "done",
                                      ![g].res = [b |-> NilAddr, err |-> heap[<<"errMarshal", 0>>]]]
                /\ heap' = heap
           ELSE /\ gor' = [gor EXCEPT ![g].pc = "marshal", ![g].loc = Alloc(g, "buf")]
                /\ heap' = Store(heap, Alloc(g, "buf"), Make(Message_len(m)))
    /\ UNCHANGED <<pvars, fvars, cvars, lvars>>

(* message.go:171-175: m.marshal(b) and the return.                        *)
MarshalBody(g) ==
    /\ gor[g].op = "MarshalMessage" /\ gor[g].pc = "marshal"
    /\ \E conv \in Conversions :
          LET r == Message_marshal(heap[gor[g].loc], heap[<<"in", g>>], conv)
          IN  IF r.err # ErrNil
              THEN /\ gor' = [gor EXCEPT ![g].pc = "done",
                                         ![g].res = [b |-> NilAddr, err |-> r.err]]
                   /\ heap' = heap
              ELSE /\ gor' = [gor EXCEPT ![g].pc = "done",
                                         ![g].res = [b |-> gor[g].loc, err |-> ErrNil]]
                   /\ heap' = Store(heap, gor[g].loc, r.b)
    /\ UNCHANGED <<pvars, fvars, cvars, lvars>>

(* message.go:182-185: parseHeader(b).                                     *)
ParseHeaderStep(g) ==
    /\ gor[g].op = "ParseMessage" /\ gor[g].pc = "start"
    /\ LET p == parseHeader(heap[<<"in", g>>])
       IN  gor' = IF p.err # ErrNil
                  THEN [gor EXCEPT ![g].pc = "done",
                                   ![g].res = [m |-> NilAddr, err |-> p.err]]
                  ELSE [gor EXCEPT ![g].pc = "body", ![g].loc = p]
    /\ UNCHANGED <<heap, pvars, fvars, cvars, lvars>>

(* message.go:189-211: the type switch allocates the Message, unmarshal    *)
(* fills it from b[headerLen:plen].                                        *)
ParseBody(g) ==
    /\ gor[g].op = "ParseMessage" /\ gor[g].pc = "body"
    /\ LET p == gor[g].loc
           b == heap[<<"in", g>>]
       IN  IF p.ptyp \notin {hello, databaseDescription, linkStateRequest,
                             linkStateAcknowledgement}
           THEN /\ gor' = [gor EXCEPT ![g].pc = "done",
                                      ![g].res = [m |-> NilAddr, err |-> errNotImplemented]]
                /\ heap' = heap
           ELSE LET m == CASE p.ptyp = hello -> NewHello(p.h)
                           [] p.ptyp = databaseDescription -> NewDatabaseDescription(p.h)
                           [] p.ptyp = linkStateRequest -> NewLinkStateRequest(p.h)
                           [] p.ptyp = linkStateAcknowledgement ->
                                  NewLinkStateAcknowledgement(p.h)
                    r == Message_unmarshal(m, Slice(b, headerLen, p.plen))
                IN  IF r.err # ErrNil
                    THEN /\ gor' = [gor EXCEPT ![g].pc = "done",
                                               ![g].res = [m |-> NilAddr, err |-> r.err]]
                         /\ heap' = Store(heap, Alloc(g, "msg"), m)
                    ELSE /\ gor' = [gor EXCEPT ![g].pc = "done",
                                               ![g].res = [m |-> Alloc(g, "msg"),
                                                           err |-> ErrNil]]
                         /\ heap' = Store(heap, Alloc(g, "msg"), r.m)
    /\ UNCHANGED <<pvars, fvars, cvars, lvars>>

GoNext ==
    \E g \in Goroutines :
        MarshalStart(g) \/ MarshalBody(g) \/ ParseHeaderStep(g) \/ ParseBody(g)

GoSpec == GoInit /\ [][GoNext]_vars

---------------------------------------------------------------------------
(* Listen and Conn.Close (conn.go:28-72): the calls they make on the raw   *)
(* socket, each of which the kernel may refuse. src/unnamed/part_004 holds *)
(* Listen with more socket options before the joins and one after them;    *)
(* variant says which of the two Listen bodies runs.                       *)

AllSPFRouters == "ff02::5"
AllDRouters == "ff02::6"

Variants == {"conn.go", "part_004"}

(* The socket options Listen sets before and after joining the groups.     *)
OptionsBeforeJoin(v) ==
    IF v = "conn.go" THEN <<"SetControlMessage">>
    ELSE <<"SetControlMessage", "SetChecksum", "SetHopLimit", "SetMulticastHopLimit",
           "SetTrafficClass", "SetMulticastInterface">>
OptionsAfterJoin(v) == IF v = "conn.go" THEN <<>> ELSE <<"SetMulticastLoopback">>

Interfaces == [Index : {1, 2}, PointToPoint : BOOLEAN]

NilConn == [nil |-> TRUE, ifi |-> <<>>, groups |-> <<>>]
NotReturned == [done |-> FALSE, err |-> ErrNil]

ListenInit ==
    /\ PipelineIdle /\ FieldIdle /\ ConnIdle /\ GoIdle
    /\ iface \in Interfaces
    /\ kern = [sock |-> "none", joined |-> <<>>, calls |-> <<>>]
    /\ \E v \in Variants :
          lpc = [fn |-> "Listen", at |-> "ListenPacket", i |-> 1, groups |-> <<>>,
                 variant |-> v]
    /\ conn = NilConn
    /\ lret = [Listen |-> NotReturned, Close |-> NotReturned]

(* Listen returns nil and the error of the call that failed.               *)
ListenFails(failed) ==
    /\ lpc' = [lpc EXCEPT !.at = "returned"]
    /\ lret' = [lret EXCEPT !.Listen = [done |-> TRUE, err |-> failed]]
    /\ conn' = NilConn

(* conn.go:31-34: net.ListenPacket("ip6:89", "::").                        *)
ListenPacket ==
    /\ lpc.fn = "Listen" /\ lpc.at = "ListenPacket"
    /\ \/ /\ ListenFails("ListenPacket")
          /\ kern' = kern
       \/ /\ kern' = [kern EXCEPT !.sock = "open", !.calls = Append(@, <<"ListenPacket", "">>)]
          /\ lpc' = [lpc EXCEPT !.at = "options", !.i = 1]
          /\ UNCHANGED <<conn, lret>>
    /\ UNCHANGED <<iface, pvars, fvars, cvars, gvars>>

(* conn.go:38-41 (part_004:41-69): one socket option is set.               *)
ListenSetOption ==
    /\ lpc.fn = "Listen" /\ lpc.at = "options"
    /\ lpc.i <= Len(OptionsBeforeJoin(lpc.variant))
    /\ LET o == OptionsBeforeJoin(lpc.variant)[lpc.i]
       IN  \/ /\ ListenFails(o)
              /\ kern' = kern
           \/ /\ kern' = [kern EXCEPT !.calls = Append(@, <<o, "">>)]
              /\ lpc' = [lpc EXCEPT !.i = @ + 1]
              /\ UNCHANGED <<conn, lret>>
    /\ UNCHANGED <<iface, pvars, fvars, cvars, gvars>>

(* conn.go:45-48: groups is AllSPFRouters, and AllDRouters unless the      *)
(* interface is point-to-point.                                            *)
ListenGroups ==
    /\ lpc.fn = "Listen" /\ lpc.at = "options"
    /\ lpc.i > Len(OptionsBeforeJoin(lpc.variant))
    /\ lpc' = [lpc EXCEPT !.at = "join", !.i = 1,
                          !.groups = IF iface.PointToPoint THEN <<AllSPFRouters>>
                                     ELSE <<AllSPFRouters, AllDRouters>>]
    /\ UNCHANGED <<iface, kern, conn, lret, pvars, fvars, cvars, gvars>>

(* conn.go:50-54: c.JoinGroup(ifi, g) for the next group.                  *)
ListenJoin ==
    /\ lpc.fn = "Listen" /\ lpc.at = "join"
    /\ lpc.i <= Len(lpc.groups)
    /\ LET g == lpc.groups[lpc.i]
       IN  \/ /\ ListenFails("JoinGroup")
              /\ kern' = kern
           \/ /\ kern' = [kern EXCEPT !.joined = Append(@, g),
                                      !.calls = Append(@, <<"JoinGroup", g>>)]
              /\ lpc' = [lpc EXCEPT !.i = @ + 1]
              /\ UNCHANGED <<conn, lret>>
    /\ UNCHANGED <<iface, pvars, fvars, cvars, gvars>>

(* part_004:82-85: the socket option set after the joins.                  *)
ListenSetOptionAfterJoin ==
    /\ lpc.fn = "Listen" /\ lpc.at = "join"
    /\ lpc.i > Len(lpc.groups)
    /\ OptionsAfterJoin(lpc.variant) # <<>>
    /\ LET o == OptionsAfterJoin(lpc.variant)[1]
       IN  \/ /\ ListenFails(o)
              /\ kern' = kern
           \/ /\ kern' = [kern EXCEPT !.calls = Append(@, <<o, "">>)]
              /\ lpc' = [lpc EXCEPT !.at = "return"]
              /\ UNCHANGED <<conn, lret>>
    /\ UNCHANGED <<iface, pvars, fvars, cvars, gvars>>

(* conn.go:56-60: Listen returns the Conn.                                 *)
ListenReturn ==
    /\ lpc.fn = "Listen"
    /\ \/ lpc.at = "return"
       \/ /\ lpc.at = "join" /\ lpc.i > Len(lpc.groups)
          /\ OptionsAfterJoin(lpc.variant) = <<>>
    /\ conn' = [nil |-> FALSE, ifi |-> iface, groups |-> lpc.groups]
    /\ lret' = [lret EXCEPT !.Listen = [done |-> TRUE, err |-> ErrNil]]
    /\ lpc' = [lpc EXCEPT !.at = "returned"]
    /\ UNCHANGED <<iface, kern, pvars, fvars, cvars, gvars>>

(* conn.go:64: Close is called on the Conn Listen returned.                *)
CloseCall ==
    /\ lpc.fn = "Listen" /\ lpc.at = "returned" /\ ~conn.nil
    /\ lpc' = [lpc EXCEPT !.fn = "Close", !.at = "leave", !.i = 1]
    /\ UNCHANGED <<iface, kern, conn, lret, pvars, fvars, cvars, gvars>>

(* conn.go:65-69: c.c.LeaveGroup(c.ifi, g) for the next group; its error   *)
(* is returned at once.                                                    *)
CloseLeave ==
    /\ lpc.fn = "Close" /\ lpc.at = "leave"
    /\ lpc.i <= Len(conn.groups)
    /\ LET g == conn.groups[lpc.i]
       IN  \/ /\ lpc' = [lpc EXCEPT !.at = "returned"]
              /\ lret' = [lret EXCEPT !.Close = [done |-> TRUE, err |-> "LeaveGroup"]]
              /\ kern' = kern
           \/ /\ kern' = [kern EXCEPT !.joined = SelectSeq(@, LAMBDA x : x # g),
                                      !.calls = Append(@, <<"LeaveGroup", g>>)]
              /\ lpc' = [lpc EXCEPT !.i = @ + 1]
              /\ lret' = lret
    /\ UNCHANGED <<iface, conn, pvars, fvars, cvars, gvars>>

(* conn.go:71: return c.c.Close(); the socket is closed whether or not     *)
(* Close reports an error.                                                 *)
CloseSocket ==
    /\ lpc.fn = "Close" /\ lpc.at = "leave"
    /\ lpc.i > Len(conn.groups)
    /\ kern' = [kern EXCEPT !.sock = "closed", !.joined = <<>>,
                            !.calls = Append(@, <<"Close", "">>)]
    /\ \E e \in {ErrNil, "Close"} :
          lret' = [lret EXCEPT !.Close = [done |-> TRUE, err |-> e]]
    /\ lpc' = [lpc EXCEPT !.at = "returned"]
    /\ UNCHANGED <<iface, conn, pvars, fvars, cvars, gvars>>

ListenNext ==
    \/ ListenPacket \/ ListenSetOption \/ ListenGroups \/ ListenJoin
    \/ ListenSetOptionAfterJoin \/ ListenReturn
    \/ CloseCall \/ CloseLeave \/ CloseSocket

ListenSpec == ListenInit /\ [][ListenNext]_vars

---------------------------------------------------------------------------
(* Vocabulary of the claims, stated on the bytes and on the Message values *)
(* themselves.                                                             *)

(* The declared packet length: big-endian bytes 2-3.                       *)
Plen(b) == (b[3] * 256) + b[4]

ValidHeader(b) ==
    /\ Len(b) >= 16
    /\ b[1] = 3
    /\ Plen(b) >= 16
    /\ Plen(b) <= Len(b)

MalformedHeader(b) ==
    \/ Len(b) < 16
    \/ b[1] # 3
    \/ Plen(b) < 16
    \/ Plen(b) > Len(b)

(* A body of L bytes cannot be a body of packet type t.                    *)
BadBody(t, L) ==
    \/ t = 1 /\ (L < 20 \/ (L - 20) % 4 # 0)
    \/ t = 2 /\ (L < 12 \/ (L - 12) % 20 # 0)
    \/ t = 3 /\ L % 12 # 0
    \/ t = 5 /\ L % 20 # 0

(* Every reserved byte inside the declared packet length is zero.          *)
ReservedZero(b) == \A i \in 1..Plen(b) : ReservedIndex(b[2], i) => b[i] = 0

(* The number of trailing elements of a Message.                           *)
ElemCount(m) == IF m.kind = "Hello" THEN Len(m.NeighborIDs.elems) ELSE Len(m.LSAs.elems)

(* The wire length and the packet type code the specification gives.       *)
WireLength(m) ==
    CASE m.kind = "Hello" -> 16 + 20 + 4 * ElemCount(m)
      [] m.kind = "DatabaseDescription" -> 16 + 12 + 20 * ElemCount(m)
      [] m.kind = "LinkStateRequest" -> 16 + 12 * ElemCount(m)
      [] m.kind = "LinkStateAcknowledgement" -> 16 + 20 * ElemCount(m)

TypeCode(m) ==
    CASE m.kind = "Hello" -> 1
      [] m.kind = "DatabaseDescription" -> 2
      [] m.kind = "LinkStateRequest" -> 3
      [] m.kind = "LinkStateAcknowledgement" -> 5

(* Structural equality of two Messages as the specification states it:    *)
(* same variant, same Header fields, same fixed fields, the same trailing  *)
(* elements in the same order.                                             *)
FixedFields(m) ==
    CASE m.kind = "Hello" ->
             <<m.InterfaceID, m.RouterPriority, m.Options, m.HelloInterval,
               m.RouterDeadInterval, m.DesignatedRouterID, m.BackupDesignatedRouterID>>
      [] m.kind = "DatabaseDescription" ->
             <<m.Options, m.InterfaceMTU, m.Flags, m.SequenceNumber>>
      [] OTHER -> <<>>

TrailingElems(m) == IF m.kind = "Hello" THEN m.NeighborIDs.elems ELSE m.LSAs.elems

SameMessage(x, y) ==
    /\ x.kind = y.kind
    /\ x.Header = y.Header
    /\ FixedFields(x) = FixedFields(y)
    /\ TrailingElems(x) = TrailingElems(y)

HasOptions(m) == m.kind \in {"Hello", "DatabaseDescription"}
NoOptions(m) == m.kind \in {"LinkStateRequest", "LinkStateAcknowledgement"}

---------------------------------------------------------------------------
(* C1: for every input b1 that ParseMessage accepts as m1, MarshalMessage  *)
(* of m1 succeeds giving b2, ParseMessage(b2) succeeds giving m2 = m1, and *)
(* MarshalMessage(m2) succeeds giving b3 = b2; whatever the reserved bytes *)
(* of b1 and the bytes after its declared length hold.                     *)
C1_RoundTripFromBytes ==
    (origin = "bytes" /\ stage >= 1 /\ e1 = ErrNil) =>
        /\ (stage >= 2 => e2 = ErrNil)
        /\ (stage >= 3 => (e3 = ErrNil /\ m2 = m1 /\ SameMessage(m2, m1)))
        /\ (stage >= 4 => (e4 = ErrNil /\ b3 = b2))
        /\ pc # "panic"

(* A DatabaseDescription with an LSA header, reserved bytes set and bytes  *)
(* after the declared length went through the whole pipeline.              *)
C1_Witness ==
    /\ origin = "bytes" /\ stage = 4 /\ e4 = ErrNil
    /\ m1.kind = "DatabaseDescription" /\ ElemCount(m1) >= 1
    /\ b1[16] # 0 /\ b1[17] # 0
    /\ Len(b1) > Plen(b1)
    /\ b2 # SubSeq(b1, 1, Plen(b1))

(* C2: for every Message m1 that MarshalMessage accepts, ParseMessage of   *)
(* the bytes succeeds and returns a Message structurally equal to m1.      *)
C2_ParseOfMarshalIsEqual ==
    (origin = "msg" /\ stage >= 3 /\ e2 = ErrNil) => (e3 = ErrNil /\ SameMessage(m2, m1))

(* C3: for every Message m1 that MarshalMessage accepts, ParseMessage of   *)
(* the bytes b2 succeeds and MarshalMessage of its result is b2 again.     *)
C3_MarshalOfParseOfMarshal ==
    (origin = "msg" /\ stage >= 3 /\ e2 = ErrNil) =>
        /\ e3 = ErrNil
        /\ (stage >= 4 => (e4 = ErrNil /\ b3 = b2))

(* C4: for every input b1 that ParseMessage accepts and whose reserved     *)
(* bytes are zero, MarshalMessage(ParseMessage(b1)) is b1 cut to its       *)
(* declared packet length.                                                 *)
C4_RemarshalReproducesBytes ==
    (origin = "bytes" /\ stage >= 2 /\ e1 = ErrNil /\ ReservedZero(b1)) =>
        (e2 = ErrNil /\ b2 = SubSeq(b1, 1, Plen(b1)))

(* A LinkStateRequest with entries, zero reserved bytes and bytes after    *)
(* the declared length was marshalled again.                               *)
C4_Witness ==
    /\ origin = "bytes" /\ stage >= 2 /\ e1 = ErrNil /\ ReservedZero(b1)
    /\ m1.kind = "LinkStateRequest" /\ ElemCount(m1) >= 2
    /\ Len(b1) > Plen(b1)
    /\ b2 = SubSeq(b1, 1, Plen(b1))

(* C5: the bytes MarshalMessage returns have exactly the length            *)
(* 16 + 20 + 4N (Hello), 16 + 12 + 20N (DatabaseDescription), 16 + 12N     *)
(* (LinkStateRequest), 16 + 20N (LinkStateAcknowledgement) for N elements. *)
C5_MarshalledLength ==
    (stage >= 2 /\ e2 = ErrNil) => Len(b2) = WireLength(m1)

(* A Hello with so many neighbor IDs that its length exceeds 65535 was     *)
(* marshalled.                                                             *)
C5_Witness ==
    /\ stage >= 2 /\ e2 = ErrNil
    /\ m1.kind = "Hello" /\ ElemCount(m1) > 16000
    /\ Len(b2) > 65535

(* C6: the header MarshalMessage writes carries version 3, the packet type *)
(* code of the variant and a 16-bit packet length equal to the number of   *)
(* bytes of the output, for any number of trailing elements.               *)
C6_MarshalledHeader ==
    (stage >= 2 /\ e2 = ErrNil) =>
        /\ b2[1] = 3
        /\ b2[2] = TypeCode(m1)
        /\ Plen(b2) = Len(b2)

(* C7: ParseMessage fails with errParse, and returns no Message, when the  *)
(* buffer has fewer than 16 bytes, byte 0 is not 3, the declared length is *)
(* less than 16 or the declared length exceeds the buffer.                 *)
C7_MalformedHeaderIsParseError ==
    (origin = "bytes" /\ stage >= 1 /\ MalformedHeader(b1)) =>
        (e1 = errParse /\ m1 = NilMessage)

(* A version 3 buffer of 16 or more bytes declaring more bytes than it     *)
(* holds was rejected.                                                     *)
C7_Witness ==
    /\ origin = "bytes" /\ stage = 1
    /\ Len(b1) >= 16 /\ b1[1] = 3 /\ Plen(b1) >= 16 /\ Plen(b1) > Len(b1)
    /\ e1 = errParse

(* C8: with a valid header, ParseMessage fails with errParse when the body *)
(* length L = declared length - 16 does not fit the packet type.           *)
C8_BadBodyIsParseError ==
    (origin = "bytes" /\ stage >= 1 /\ ValidHeader(b1) /\ BadBody(b1[2], Plen(b1) - 16)) =>
        (e1 = errParse /\ m1 = NilMessage)

(* A DatabaseDescription whose body holds the 12 fixed bytes and part of   *)
(* an LSA header was rejected.                                             *)
C8_Witness ==
    /\ origin = "bytes" /\ stage = 1 /\ ValidHeader(b1)
    /\ b1[2] = 2 /\ Plen(b1) - 16 > 12 /\ (Plen(b1) - 16 - 12) % 20 # 0
    /\ e1 = errParse

(* C9: with a valid header and a packet type outside {1, 2, 3, 5},         *)
(* ParseMessage fails with an error that is not an errParse error and      *)
(* returns no Message.                                                     *)
C9_UnimplementedTypeIsDistinctError ==
    (origin = "bytes" /\ stage >= 1 /\ ValidHeader(b1) /\ b1[2] \notin {1, 2, 3, 5}) =>
        (e1 # ErrNil /\ e1 # errParse /\ m1 = NilMessage)

(* A well-formed Link State Update (type 4) with a body was refused.       *)
C9_Witness ==
    /\ origin = "bytes" /\ stage = 1 /\ ValidHeader(b1)
    /\ b1[2] = 4 /\ Plen(b1) > 16
    /\ e1 # ErrNil

(* C10: MarshalMessage of a Hello or DatabaseDescription fails with        *)
(* errMarshal and no bytes exactly when Options has a bit above bit 23;    *)
(* LinkStateRequest and LinkStateAcknowledgement always marshal.           *)
C10_MarshalFailsIffOptionsInvalid ==
    (stage >= 2 /\ m1 # NilMessage) =>
        /\ HasOptions(m1) =>
              IF m1.Options.hi >= 256 THEN e2 = errMarshal /\ b2 = <<>>
              ELSE e2 = ErrNil /\ b2 # <<>>
        /\ NoOptions(m1) => (e2 = ErrNil /\ b2 # <<>>)

(* A DatabaseDescription whose Options has only bit 24 set was refused.    *)
C10_Witness ==
    /\ stage >= 2 /\ m1.kind = "DatabaseDescription"
    /\ m1.Options = [hi |-> 256, lo |-> 0]
    /\ e2 = errMarshal /\ b2 = <<>>

---------------------------------------------------------------------------
(* C11: MarshalMessage of a nil Message fails with errMarshal and returns  *)
(* no bytes.                                                               *)
C11_NilMessageIsMarshalError ==
    (origin = "msg" /\ stage >= 2 /\ m1 = NilMessage) => (e2 = errMarshal /\ b2 = <<>>)

(* MarshalMessage was called with a nil Message and refused it.            *)
C11_Witness ==
    /\ origin = "msg" /\ stage = 2 /\ m1 = NilMessage
    /\ e2 = errMarshal /\ pc = "done"

(* The byte that shares the 32-bit word with Options on the wire:          *)
(* RouterPriority of a Hello (body byte 4), the reserved body byte 0 of a  *)
(* DatabaseDescription.                                                    *)
SharedByte(b) == IF b[2] = 1 THEN b[21] ELSE b[17]

(* C12: in every Hello or DatabaseDescription ParseMessage returns, bits   *)
(* 24-31 of Options are zero whatever the byte sharing its word holds, and *)
(* MarshalMessage of a Message ParseMessage returned never fails.          *)
C12_ParsedOptionsAreMasked ==
    (origin = "bytes" /\ stage >= 1 /\ e1 = ErrNil) =>
        /\ HasOptions(m1) => m1.Options.hi < 256
        /\ stage >= 2 => e2 = ErrNil

(* A Hello or DatabaseDescription whose shared byte is 255 was parsed     *)
(* and marshalled again.                                                   *)
C12_Witness ==
    /\ origin = "bytes" /\ stage >= 2 /\ e1 = ErrNil /\ e2 = ErrNil
    /\ HasOptions(m1) /\ SharedByte(b1) = 255
    /\ m1.Options.hi = 255

(* Byte sequences put after the declared packet length.                    *)
Tails == { <<>>, <<0>>, <<3, 1, 0, 16, 255>> }

(* C13: ParseMessage of an accepted b1 is ParseMessage of its first plen   *)
(* bytes followed by any bytes, and MarshalMessage of the result has       *)
(* exactly plen bytes.                                                     *)
C13_TrailingBytesIgnored ==
    (origin = "bytes" /\ stage >= 1 /\ e1 = ErrNil) =>
        /\ \A t \in Tails :
              ParseMessage(SubSeq(b1, 1, Plen(b1)) \o t) = [m |-> m1, err |-> ErrNil]
        /\ stage >= 2 => (e2 = ErrNil /\ Len(b2) = Plen(b1))

(* A Hello followed by bytes that are not part of it was parsed and        *)
(* marshalled to fewer bytes than the buffer held.                         *)
C13_Witness ==
    /\ origin = "bytes" /\ stage >= 2 /\ e1 = ErrNil
    /\ m1.kind = "Hello"
    /\ Len(b1) >= Plen(b1) + 4
    /\ Len(b2) = Plen(b1)

(* C14: for every DatabaseDescription with any 16-bit Flags value whose    *)
(* marshalled bytes fit the packet length field, ParseMessage of the bytes *)
(* MarshalMessage returns yields the same Flags value.                     *)
C14_DDFlagsPreserved ==
    (origin = "msg" /\ stage >= 3 /\ e2 = ErrNil /\ m1.kind = "DatabaseDescription"
        /\ Len(b2) <= 65535) =>
        (e3 = ErrNil /\ m2.Flags = m1.Flags)

(* The 16-bit count of seconds can hold the duration d once rounded.       *)
DurationFits(d) == Round(d).sec >= 0 /\ Round(d).sec <= 65535

(* Every field of the Message fits its wire field.                         *)
FieldsFit(m) ==
    CASE m.kind = "Hello" ->
             DurationFits(m.HelloInterval) /\ DurationFits(m.RouterDeadInterval)
      [] m.kind = "DatabaseDescription" ->
             /\ m.Flags <= 255
             /\ \A j \in 1..Len(m.LSAs.elems) : DurationFits(m.LSAs.elems[j].Age)
      [] m.kind = "LinkStateAcknowledgement" ->
             \A j \in 1..Len(m.LSAs.elems) : DurationFits(m.LSAs.elems[j].Age)
      [] OTHER -> TRUE

(* C15: MarshalMessage of a Message holding a value that does not fit its  *)
(* wire field returns errMarshal and no bytes.                             *)
C15_NoSilentTruncation ==
    (origin = "msg" /\ stage >= 2 /\ m1 # NilMessage /\ ~FieldsFit(m1)) =>
        (e2 = errMarshal /\ b2 = <<>>)

---------------------------------------------------------------------------
(* Big-endian bytes of a 16-bit number and of a 32-bit [hi, lo] pair.      *)
BE16(v) == <<v \div 256, v % 256>>
BE32(v) == BE16(v.hi) \o BE16(v.lo)

(* 0 <= d <= 65535 s.                                                      *)
InWireRange(d) == d.sec >= 0 /\ (d.sec < 65535 \/ (d.sec = 65535 /\ d.nsec = 0))

(* n is a whole number of seconds nearest to d.                            *)
IsNearest(d, n) ==
    \/ n = d.sec /\ d.nsec + d.nsec <= 1000000000
    \/ n = d.sec + 1 /\ d.nsec + d.nsec >= 1000000000

(* C16: a duration d with 0 <= d <= 65535 s is encoded as the big-endian   *)
(* 16-bit count n of seconds nearest to d and decoded as exactly n whole   *)
(* seconds; a whole-second d decodes to d itself.                          *)
C16_DurationRoundsToNearestSecond ==
    (call \in {"putUint16Seconds", "uint16Seconds"} /\ InWireRange(arg.d)) =>
        \E n \in {arg.d.sec, arg.d.sec + 1} :
            /\ IsNearest(arg.d, n)
            /\ out.b = BE16(n)
            /\ call = "uint16Seconds" =>
                   /\ out.d = [sec |-> n, nsec |-> 0]
                   /\ arg.d.nsec = 0 => out.d = arg.d

(* 65534.5 s was encoded as 0xffff and decoded as 65535 s.                 *)
C16_Witness ==
    /\ call = "uint16Seconds"
    /\ arg.d = [sec |-> 65534, nsec |-> 500000000]
    /\ out.b = <<255, 255>>
    /\ out.d = [sec |-> 65535, nsec |-> 0]

(* The 10 bytes of an LSA: type(2), LinkStateID(4), AdvertisingRouter(4).  *)
LSABytes(l) == BE16(l.Type) \o l.LinkStateID \o l.AdvertisingRouter

(* C17 (as amended): an LSA is encoded as 10 bytes, type(2),               *)
(* LinkStateID(4), AdvertisingRouter(4); a LinkStateRequest entry is a     *)
(* fixed 12-byte record, 2 reserved bytes then those 10 bytes; an LSA      *)
(* header is a fixed 20-byte record, age(2), the 10 LSA bytes,             *)
(* sequence(4), checksum(2), length(2), in this order, big-endian, no byte *)
(* written by two fields; parsing what was written returns the same Type,  *)
(* LinkStateID, AdvertisingRouter, SequenceNumber, Checksum and Length.    *)
C17_LSALayout ==
    /\ call \in {"LSAHeader.marshal", "parseLSAHeader"} =>
          /\ Len(out.b) = 20
          /\ Len(out.lsa) = 10
          /\ out.b = BE16(arg.h.Age.sec) \o LSABytes(arg.h.LSA)
                         \o BE32(arg.h.SequenceNumber) \o BE16(arg.h.Checksum)
                         \o BE16(arg.h.Length)
          /\ call = "parseLSAHeader" =>
                 /\ out.h.LSA = arg.h.LSA
                 /\ out.h.SequenceNumber = arg.h.SequenceNumber
                 /\ out.h.Checksum = arg.h.Checksum
                 /\ out.h.Length = arg.h.Length
    /\ call \in {"LSA.marshal", "parseLSA"} =>
          /\ Len(out.b) = 12
          /\ out.b = <<0, 0>> \o LSABytes(arg.l)
          /\ call = "parseLSA" => out.l = arg.l

(* An LSA header whose 20 bytes all differ was written and parsed back.    *)
C17_Witness ==
    /\ call = "parseLSAHeader"
    /\ arg.h.Age = [sec |-> 258, nsec |-> 0] /\ arg.h.LSA.Type = 772
    /\ out.b = <<1, 2, 3, 4, 5, 6, 7, 8, 9, 10, 11, 12, 13, 14, 15, 16, 17, 18, 19, 20>>
    /\ out.h = arg.h

(* C17 (as stated): the LSA inside an LSA header is a 12-byte record, and  *)
(* the 20-byte header is age(2), that record, sequence(4), checksum(2),    *)
(* length(2).                                                              *)
C17_AsStated ==
    call \in {"LSAHeader.marshal", "parseLSAHeader"} =>
        /\ Len(out.lsa) = 12
        /\ Len(out.b) = 20
        /\ out.b = BE16(arg.h.Age.sec) \o out.lsa \o BE32(arg.h.SequenceNumber)
                       \o BE16(arg.h.Checksum) \o BE16(arg.h.Length)

(* C18: LSAHandling returns the U-bit (0x8000) of the type: true exactly   *)
(* when that bit is set, false whenever it is clear whatever S1 and S2 are.*)
C18_LSAHandlingIsUBit ==
    call = "LSAHandling" => (out <=> (arg.t >= 32768))

(* C19: FloodingScope returns (t div 8192) mod 4, one of LinkLocal = 0,    *)
(* Area = 1, AS = 2, Reserved = 3; LinkLSA gives LinkLocal, ASExternalLSA  *)
(* gives AS, and RouterLSA, NetworkLSA, InterAreaPrefixLSA,                *)
(* InterAreaRouterLSA, NSSALSA and IntraAreaPrefixLSA give Area.           *)
C19_FloodingScopeIsS2S1 ==
    call = "FloodingScope" =>
        /\ out = (arg.t \div 8192) % 4
        /\ out \in {0, 1, 2, 3}
        /\ arg.t = LinkLSA => out = 0
        /\ arg.t = ASExternalLSA => out = 2
        /\ arg.t \in {RouterLSA, NetworkLSA, InterAreaPrefixLSA, InterAreaRouterLSA,
                      NSSALSA, IntraAreaPrefixLSA} => out = 1

(* The scope of a type with the U-bit, S2 and S1 all set was computed as   *)
(* Reserved.                                                               *)
C19_Witness ==
    /\ call = "FloodingScope"
    /\ arg.t = 65535
    /\ out = 3

---------------------------------------------------------------------------
(* Each of the first n reads of this call returned bytes that do not parse.*)
Dropped(n) == \A i \in 1..n : ParseMessage(hist[i].b).err # ErrNil

(* C20: Conn.ReadFrom never returns a parse error. Every datagram it read  *)
(* for which ParseMessage fails is dropped and ReadFrom reads on; it       *)
(* returns only with the error of the underlying read, or with the         *)
(* Message, control message and source of the first datagram, in arrival   *)
(* order, that parses.                                                     *)
C20_ReadFromDropsUnparsable ==
    /\ rpc = "read" => Dropped(Len(hist))
    /\ rpc = "returned" =>
          /\ ret.err \notin {errParse, errNotImplemented}
          /\ ret.err # ErrNil =>
                /\ ret.err \in ReadErrors
                /\ ret.m = NilMessage
                /\ Dropped(Len(hist))
          /\ ret.err = ErrNil =>
                /\ Len(hist) >= 1
                /\ Dropped(Len(hist) - 1)
                /\ ParseMessage(hist[Len(hist)].b) = [m |-> ret.m, err |-> ErrNil]
                /\ ret.cm = hist[Len(hist)].cm
                /\ ret.src = hist[Len(hist)].src

(* ReadFrom dropped a malformed datagram and a Link State Update, then     *)
(* returned the Hello that arrived third, with its source.                 *)
C20_Witness ==
    /\ rpc = "returned" /\ ret.err = ErrNil
    /\ Len(hist) = 3
    /\ ParseMessage(hist[1].b).err = errParse
    /\ ParseMessage(hist[2].b).err = errNotImplemented
    /\ ret.m.kind = "Hello" /\ ret.src = hist[3].src /\ hist[3].src # hist[1].src

---------------------------------------------------------------------------
(* What the call of goroutine g returns when it runs alone.                *)
Sequential(g) ==
    IF gor[g].op = "ParseMessage" THEN ParseMessage(gor[g].in0)
    ELSE MarshalMessage(gor[g].in0, "wrap")

(* What the finished call of goroutine g returned: the error, and the      *)
(* Message or bytes its result points to.                                  *)
Returned(g) ==
    IF gor[g].op = "ParseMessage"
    THEN [m |-> IF gor[g].res.m = NilAddr THEN NilMessage ELSE heap[gor[g].res.m],
          err |-> gor[g].res.err]
    ELSE [b |-> IF gor[g].res.b = NilAddr THEN <<>> ELSE heap[gor[g].res.b],
          err |-> gor[g].res.err]

(* C21: under every interleaving of the calls, no call modifies its input  *)
(* or a package-level variable, and every finished call has returned what  *)
(* it returns when run alone.                                              *)
C21_ConcurrentCallsAreIndependent ==
    /\ heap[<<"errMarshal", 0>>] = errMarshal /\ heap[<<"errParse", 0>>] = errParse
    /\ \A g \in Goroutines :
          /\ heap[<<"in", g>>] = gor[g].in0
          /\ gor[g].pc = "done" => Returned(g) = Sequential(g)

(* Two concurrent calls of ParseMessage on different inputs both finished  *)
(* and returned different Messages.                                        *)
C21_Witness ==
    /\ \A g \in Goroutines :
          /\ gor[g].op = "ParseMessage" /\ gor[g].pc = "done"
          /\ gor[g].res.err = ErrNil
    /\ gor[1].in0 # gor[2].in0
    /\ heap[gor[1].res.m] # heap[gor[2].res.m]

---------------------------------------------------------------------------
(* The buffer b with every reserved byte set to zero.                      *)
ZeroReserved(b) ==
    IF Len(b) < 2 THEN b
    ELSE [i \in 1..Len(b) |-> IF ReservedIndex(b[2], i) THEN 0 ELSE b[i]] \o <<>>

(* C22: in every output of MarshalMessage the reserved bytes (header byte  *)
(* 15, DatabaseDescription body bytes 0 and 6, the first 2 bytes of every  *)
(* LinkStateRequest entry) are zero, and ParseMessage of an input returns  *)
(* what it returns for the input with its reserved bytes set to zero.      *)
C22_ReservedBytes ==
    /\ (stage >= 2 /\ e2 = ErrNil /\ origin \in {"bytes", "msg"}) =>
          \A i \in 1..Len(b2) : ReservedIndex(b2[2], i) => b2[i] = 0
    /\ (origin = "bytes" /\ stage >= 1) =>
          ParseMessage(ZeroReserved(b1)) = [m |-> m1, err |-> e1]

(* A LinkStateRequest whose reserved bytes were all 255 was parsed and     *)
(* marshalled with them zero.                                              *)
C22_Witness ==
    /\ origin = "bytes" /\ stage >= 2 /\ e2 = ErrNil
    /\ m1.kind = "LinkStateRequest" /\ ElemCount(m1) >= 2
    /\ b1[16] = 255 /\ b1[17] = 255 /\ b1[18] = 255 /\ b1[29] = 255
    /\ b2[16] = 0 /\ b2[17] = 0 /\ b2[18] = 0 /\ b2[29] = 0

---------------------------------------------------------------------------
(* The 3 big-endian bytes of a 24-bit Options value.                       *)
OptionBytes(o) == <<o.hi, o.lo \div 256, o.lo % 256>>

(* C23: in a marshalled Hello body byte 4 is RouterPriority and body bytes *)
(* 5-7 are Options; in a parsed Hello RouterPriority is body byte 4 and    *)
(* Options is the 24 bits of body bytes 5-7; each field round-trips        *)
(* whatever the other holds.                                               *)
C23_PriorityAndOptionsShareAWord ==
    /\ (origin = "msg" /\ stage >= 2 /\ e2 = ErrNil /\ m1.kind = "Hello") =>
          /\ b2[21] = m1.RouterPriority
          /\ <<b2[22], b2[23], b2[24]>> = OptionBytes(m1.Options)
          /\ (stage >= 3 /\ e3 = ErrNil) =>
                 /\ m2.RouterPriority = m1.RouterPriority
                 /\ m2.Options = m1.Options
    /\ (origin = "bytes" /\ stage >= 1 /\ e1 = ErrNil /\ m1.kind = "Hello") =>
          /\ m1.RouterPriority = b1[21]
          /\ OptionBytes(m1.Options) = <<b1[22], b1[23], b1[24]>>

(* A Hello with priority 1 and every Options bit set was marshalled and    *)
(* parsed back.                                                            *)
C23_Witness ==
    /\ origin = "msg" /\ stage >= 3 /\ e3 = ErrNil /\ m1.kind = "Hello"
    /\ m1.RouterPriority = 1 /\ m1.Options = [hi |-> 255, lo |-> 65535]
    /\ <<b2[21], b2[22], b2[23], b2[24]>> = <<1, 255, 255, 255>>
    /\ m2.RouterPriority = 1 /\ m2.Options = m1.Options

---------------------------------------------------------------------------
(* C24: ParseMessage checks, in this order, buffer length >= 16, version   *)
(* = 3, declared length >= 16, declared length <= buffer length, the       *)
(* packet type, the body: the first check that fails decides the error, so *)
(* an unimplemented type with an invalid header is errParse.               *)
C24_ValidationOrder ==
    (origin = "bytes" /\ stage >= 1) =>
        LET p == parseHeader(b1)
        IN  IF Len(b1) < 16
            THEN e1 = errParse /\ p.text = "not enough bytes for OSPFv3 header"
            ELSE IF b1[1] # 3
            THEN e1 = errParse /\ p.text = "unrecognized OSPF version"
            ELSE IF Plen(b1) < 16
            THEN /\ e1 = errParse
                 /\ p.text = "header packet length is too short for a valid packet"
            ELSE IF Plen(b1) > Len(b1)
            THEN /\ e1 = errParse
                 /\ p.text = "header packet length exceeds the bytes available"
            ELSE IF b1[2] \notin {1, 2, 3, 5}
            THEN e1 = errNotImplemented
            ELSE IF BadBody(b1[2], Plen(b1) - 16) THEN e1 = errParse
            ELSE e1 = ErrNil

(* A version 3 packet of type 0xff declaring length 0 was rejected as      *)
(* malformed.                                                              *)
C24_Witness ==
    /\ origin = "bytes" /\ stage = 1
    /\ Len(b1) >= 16 /\ b1[1] = 3 /\ b1[2] = 255 /\ Plen(b1) = 0
    /\ e1 = errParse

---------------------------------------------------------------------------
(* names[i] for every bit i - 1 set in f, from index i on, in ascending    *)
(* order.                                                                  *)
RECURSIVE NamedTerms(_, _, _)
NamedTerms(f, names, i) ==
    IF i > Len(names) THEN <<>>
    ELSE (IF (f \div (2 ^ (i - 1))) % 2 = 1 THEN <<names[i]>> ELSE <<>>)
             \o NamedTerms(f, names, i + 1)

(* f with every named bit cleared.                                         *)
Residue(f, names) == f - (f % (2 ^ Len(names)))

(* The terms joined by "|".                                                *)
RECURSIVE Join(_)
Join(terms) ==
    IF Len(terms) = 1 THEN terms[1]
    ELSE terms[1] \o "|" \o Join(Tail(terms))

(* C25: flagsString returns the names of the set named bits in ascending   *)
(* bit order, then one hexadecimal term for the residue exactly when the   *)
(* residue is not zero, joined by "|"; it returns "0" exactly when f = 0   *)
(* and never the empty string.                                             *)
C25_FlagsString ==
    call = "flagsString" =>
        LET r == Residue(arg.f, arg.names)
            terms == NamedTerms(arg.f, arg.names, 1)
                         \o (IF r # 0 THEN <<Sprintf_x(r)>> ELSE <<>>)
        IN  /\ terms # <<>> => out = Join(terms)
            /\ (out = "0") <=> (arg.f = 0)
            /\ out # ""

(* The third case of Test_flagsString: two named bits and an unnamed one.  *)
C25_Witness ==
    /\ call = "flagsString"
    /\ arg.f = 1034 /\ arg.names = <<"foo", "bar", "baz", "qux">>
    /\ out = "bar|qux|0x400"


---------------------------------------------------------------------------
(* Vocabulary of the claims about Listen and Close.                        *)

(* The groups named by the socket's calls of one kind, in call order.      *)
RECURSIVE GroupsOf(_, _)
GroupsOf(calls, kind) ==
    IF calls = <<>> THEN <<>>
    ELSE (IF Head(calls)[1] = kind THEN <<Head(calls)[2]>> ELSE <<>>)
         \o GroupsOf(Tail(calls), kind)

ListenSucceeded == lret.Listen.done /\ lret.Listen.err = ErrNil
ListenFailedAfterOpen ==
    lret.Listen.done /\ lret.Listen.err # ErrNil /\ kern.sock # "none"
CloseReturned == lret.Close.done

(* C26: once Listen has returned a Conn, the socket has joined ff02::5,    *)
(* followed by ff02::6 exactly when the interface is not point-to-point;   *)
(* once Close has returned, the socket has left the groups Listen joined,  *)
(* in the order they were joined, and its last call is the close of the    *)
(* socket.                                                                 *)
C26_JoinsAndLeaves ==
    /\ ListenSucceeded =>
          GroupsOf(kern.calls, "JoinGroup") =
              (IF iface.PointToPoint THEN <<AllSPFRouters>>
               ELSE <<AllSPFRouters, AllDRouters>>)
    /\ CloseReturned =>
          /\ GroupsOf(kern.calls, "LeaveGroup") = GroupsOf(kern.calls, "JoinGroup")
          /\ kern.calls[Len(kern.calls)] = <<"Close", "">>

(* C30: once Close has returned, with an error or without, the socket is   *)
(* closed; once Listen has returned an error after the socket was opened,  *)
(* the socket is closed.                                                   *)
C30_NoSocketLeftOpen ==
    /\ CloseReturned => kern.sock = "closed"
    /\ ListenFailedAfterOpen => kern.sock = "closed"


---------------------------------------------------------------------------
(* Vocabulary of the claims about memory accesses.                         *)

(* s[lo:hi] is in bounds of the n-byte slice s.                            *)
InBounds(a) == 0 <= a.lo /\ a.lo <= a.hi /\ a.hi <= a.n

(* The bytes an access reads lie in [from, to) of the input buffer.        *)
ReadsWithin(a, from, to) == from <= a.base + a.lo /\ a.base + a.hi <= to

AllAccesses(t) == t.header \o t.payload \o t.body

(* C27: for every input buffer ParseMessage returns either a Message and   *)
(* no error or no Message and an error; every index and slice expression   *)
(* it evaluates is in bounds; b[16:plen] is evaluated only when            *)
(* 16 <= plen <= len(b); and every read of unmarshal lies inside the body  *)
(* b[16:plen].                                                             *)
C27_ParseIsMemorySafe ==
    (origin = "bytes" /\ stage >= 1) =>
        LET t == ParseMessageAccesses(b1)
        IN  /\ (e1 = ErrNil) <=> (m1 # NilMessage)
            /\ \A k \in 1..Len(AllAccesses(t)) : InBounds(AllAccesses(t)[k])
            /\ t.payload # <<>> => (headerLen <= Plen(b1) /\ Plen(b1) <= Len(b1))
            /\ \A k \in 1..Len(t.body) : ReadsWithin(t.body[k], headerLen, Plen(b1))
            /\ t.body # <<>> => t.payload # <<>>

(* A LinkStateRequest of three entries was parsed out of a buffer longer   *)
(* than its declared length: the loop of unmarshal ran and read records.   *)
C27_Witness ==
    /\ origin = "bytes" /\ stage >= 1
    /\ e1 = ErrNil /\ m1.kind = "LinkStateRequest" /\ len(m1.LSAs) = 3
    /\ Len(b1) > Plen(b1)
    /\ Len(ParseMessageAccesses(b1).body) = 12


(* The fixed body length and the record size of a Message's wire format.   *)
FixedLen(m) ==
    CASE m.kind = "Hello" -> 20
      [] m.kind = "DatabaseDescription" -> 12
      [] OTHER -> 0
RecordLen(m) ==
    CASE m.kind = "Hello" -> 4
      [] m.kind = "LinkStateRequest" -> 12
      [] OTHER -> 20

(* The range of the buffer a write of Message m must stay in: the header,  *)
(* the fixed body after it, or the record of its element.                  *)
PartFrom(m, w) ==
    CASE w.part = "header" -> 0
      [] w.part = "fixed" -> 16
      [] w.part = "element" -> 16 + FixedLen(m) + (RecordLen(m) * (w.elem - 1))
PartTo(m, w) ==
    CASE w.part = "header" -> 16
      [] w.part = "fixed" -> 16 + FixedLen(m)
      [] w.part = "element" -> 16 + FixedLen(m) + (RecordLen(m) * w.elem)

(* C28: for every non-nil Message handed to MarshalMessage the buffer has  *)
(* exactly len() bytes; every sub-slice and every store of marshal is in   *)
(* bounds of it; the header's stores lie in [0,16), the fixed body's in    *)
(* the bytes after it, those of element i in the i-th record after the     *)
(* fixed body; each store begins at or after the end of the one before it, *)
(* so no two overlap; and the last store of the last element ends at       *)
(* len().                                                                  *)
C28_MarshalWritesInBounds ==
    (stage >= 2 /\ m1 # NilMessage) =>
        LET n == Message_len(m1)
            t == MarshalMessageWrites(m1)
            W == t.writes
        IN  /\ e2 = ErrNil => (Len(b2) = n /\ W # <<>>)
            /\ \A k \in 1..Len(t.slices) : InBounds(t.slices[k])
            /\ \A k \in 1..Len(W) :
                  /\ InBounds(W[k])
                  /\ ReadsWithin(W[k], 0, n)
                  /\ ReadsWithin(W[k], PartFrom(m1, W[k]), PartTo(m1, W[k]))
                  /\ k > 1 => W[k - 1].base + W[k - 1].hi <= W[k].base + W[k].lo
            /\ (W # <<>> /\ ElemCount(m1) >= 1) =>
                  /\ W[Len(W)].part = "element" /\ W[Len(W)].elem = ElemCount(m1)
                  /\ W[Len(W)].base + W[Len(W)].hi = n

(* A DatabaseDescription with three LSA headers was marshalled: header,    *)
(* fixed body and every element were written.                              *)
C28_Witness ==
    /\ origin = "msg" /\ stage >= 2 /\ e2 = ErrNil
    /\ m1.kind = "DatabaseDescription" /\ ElemCount(m1) = 3
    /\ Len(MarshalMessageWrites(m1).writes) = 7 + 4 + (3 * 7)
    /\ Len(b2) = 88


(* C29: ParseMessage succeeds on every buffer with a valid header, a type  *)
(* in {1, 2, 3, 5} and a body length the type accepts (an empty body for   *)
(* LinkStateRequest and LinkStateAcknowledgement included), whatever the   *)
(* other bytes hold; the Message has the type's kind and                   *)
(* (L - fixed body length) / record size trailing elements.                *)
C29_WellFormedInputParses ==
    (/\ origin = "bytes" /\ stage >= 1
     /\ ValidHeader(b1) /\ b1[2] \in {1, 2, 3, 5}
     /\ ~BadBody(b1[2], Plen(b1) - 16)) =>
        /\ e1 = ErrNil /\ m1 # NilMessage
        /\ TypeCode(m1) = b1[2]
        /\ (Plen(b1) - 16 - FixedLen(m1)) % RecordLen(m1) = 0
        /\ ElemCount(m1) = (Plen(b1) - 16 - FixedLen(m1)) \div RecordLen(m1)

(* A DatabaseDescription whose every byte after the length field is 0xff   *)
(* (checksum, reserved bytes, all Options bits, all flags, LSType 0xffff)  *)
(* was parsed into a Message with one LSA header.                          *)
C29_Witness ==
    /\ origin = "bytes" /\ stage >= 1 /\ e1 = ErrNil
    /\ m1.kind = "DatabaseDescription" /\ ElemCount(m1) = 1
    /\ Plen(b1) = 48
    /\ \A i \in 5..48 : b1[i] = 255
    /\ m1.Flags = 255 /\ m1.LSAs.elems[1].LSA.Type = 65535

===========================================================================
